---- MODULE Spec2Model ----
(***************************************************************************)
(* Order lifecycle and delivery-OTP state machine of the e-commerce        *)
(* backend.  The repository carries two copies of the order controller:    *)
(* src/controllers/OrderController.js and src/unnamed/part_002 (the copy   *)
(* that also sends notification e-mails around every operation).  Both are *)
(* modelled; the variable `variant' says which copy serves the requests.   *)
(* Time is the wall clock of Date.now(), in milliseconds.  Amounts are     *)
(* integers (minor currency units).  Order and user ids are well-formed    *)
(* ObjectIds; an id that names no document is drawn with the others.       *)
(* order.save() and Order.create() fail only on schema validation; an      *)
(* unreachable database is outside the model.  sendMail may fail at will.  *)
(***************************************************************************)
EXTENDS Integers, Sequences, FiniteSets, TLC

VARIABLES
    variant,    \* which copy of the order controller is deployed
    orders,     \* the Order collection: sequence of documents, _id = index
    now,        \* Date.now()
    last,       \* the last request (handler, order id) and its HTTP response
    mail,       \* the notification attempted by the last request
    effects,    \* what the last request did to the outside, in program order
    verified,   \* history: ids of orders on which verifyDeliveryOtp succeeded
    issued,     \* history: per order, the otpExpiresAt values ever stored
    step,       \* delivery walk-through: how many of its requests were made
    sent,       \* delivery walk-through: every mail handed to sendMail
    carts,      \* the Cart collection: per user, the cart document if any
    cartRes,    \* the last cart request and its HTTP response
    wishlists,  \* the WishList collection: per user, the document if any
    wishRes,    \* the last wishlist request and its HTTP response
    reviewDocs, \* the Review collection: per product, the document if any
    reviewRes,  \* the last review request and its HTTP response
    chatVariant,\* which copy of the chatbot controller was started, if any
    chat,       \* the chat request being served: position, locals, response
    retry,      \* the call of openaiWithRetry in progress: position and locals
    norm,       \* the cart items being normalized for a chat reply
    addr,       \* the shipping address being redacted for a chat reply
    race,       \* one order and the requests on it that run concurrently
    pw          \* the users' password-reset fields and the last reset request

orderVars == <<variant, orders, now, last, mail, effects, verified, issued>>
walkVars == <<step, sent>>
cartVars == <<carts, cartRes>>
wishVars == <<wishlists, wishRes>>
reviewVars == <<reviewDocs, reviewRes>>
chatVars == <<chatVariant, chat>>
restVars == <<retry, norm, addr, race, pw>>
vars == <<orderVars, walkVars, cartVars, wishVars, reviewVars, chatVars,
          restVars>>

-----------------------------------------------------------------------------
(* Bounds of the model *)

MaxOrders == 1
RandDen == 1000
MaxQty == 2          \* largest quantity of one cart line
QtyScale == 2        \* quantities are counted in 1/QtyScale of a unit
MaxWish == 3         \* most entries of one wishlist

-----------------------------------------------------------------------------
(* The two copies of the controller *)

CONTROLLER == "controllers/OrderController.js"
PART002 == "unnamed/part_002"
Variants == {CONTROLLER, PART002}

(* JavaScript values that matter for truthiness and for ===               *)
Null == [t |-> "null", v |-> 0]
Str(n) == [t |-> "string", v |-> n]
Num(n) == [t |-> "number", v |-> n]
DateOf(ms) == [t |-> "date", v |-> ms]

\* !x of the source is ~Truthy(x): null, 0 are falsy; a Date object and a
\* non-empty digit string are truthy.
Truthy(x) == /\ x.t # "null"
             /\ ~(x.t = "number" /\ x.v = 0)

\* a !== b of the source is ~StrictEq(a, b): no coercion between types.
StrictEq(a, b) == a.t = b.t /\ a.v = b.v

\* Number.prototype.toString of a non-negative integer
toString(n) == Str(n)

-----------------------------------------------------------------------------
(* OrderModel.js *)

OrderStatusEnum ==
    {"Pending", "Processing", "Shipped", "Delivered", "Cancelled",
     "Refunded", "Return Requested", "Returned & Refunded"}

\* Schema validation run by Order.create and order.save
ValidOrder(o) ==
    /\ o.status \in OrderStatusEnum
    /\ \A i \in 1..Len(o.items) : o.items[i].quantity >= 1

-----------------------------------------------------------------------------
(* Inputs *)

Users == {"u1"}
UserIdInputs == {"", "u1", "u9"}          \* missing, existing, unknown
AddressInputs == {"", "12 Main St, Pune, MH"}
Products == {"p1", "p2", "p3"}            \* p3 is never ordered
OrderIds == 1..(MaxOrders + 1)            \* the last one never exists

ItemA == [productId |-> "p1", quantity |-> 1, price |-> 40]
ItemB == [productId |-> "p2", quantity |-> 2, price |-> 30]
ItemA2 == [productId |-> "p1", quantity |-> 3, price |-> 5]
ItemLists == {<< >>, <<ItemA, ItemB>>, <<ItemA, ItemA2>>}

RECURSIVE SumItems(_)
SumItems(items) ==
    IF items = << >> THEN 0
    ELSE Head(items).price * Head(items).quantity + SumItems(Tail(items))

\* totalAmount is taken from the request body: the true sum or another number
TamperedTotal == 7
TotalInputs(items) == {SumItems(items), TamperedTotal}

NoStatus == ""                             \* status absent from the body
CreateStatusInputs == {NoStatus, "Shipped", "Delivered", "Bogus"}
UpdateStatusInputs == {"Processing", "Shipped", "Delivered", "Bogus"}

\* Math.random() returns r / RandDen for r in 0 .. RandDen-1; two samples
RandSamples == {0, RandDen - 1}

-----------------------------------------------------------------------------
(* Cart documents (cartSchema) and cart inputs *)

CartUsers == {"u1", "u2"}                 \* users behind the `protect' token
CartUserParams == CartUsers \cup {"u9"}   \* :userId of the URL; u9 has no cart
CartProducts == {"p1", "p2"}

\* quantityDelta of the body: whole and fractional, negative, zero, positive
DeltaInputs == {0 - MaxQty * QtyScale, 0 - QtyScale, -1, 0, 1, QtyScale}

NoCart == [exists |-> FALSE, items |-> << >>]
CartDoc(items) == [exists |-> TRUE, items |-> items]

\* Mutant: the schema has no minimum on quantity
ValidCart_NoMin(items) == TRUE

\* quantity: { type: Number, required: true, min: 1 }, checked by save()
ValidCart(items) ==
    \A i \in 1..Len(items) : items[i].quantity >= 1 * QtyScale

-----------------------------------------------------------------------------
(* Wishlist documents (wishListSchema) and ObjectId strings *)

WishUsers == {"u1", "u2"}
ProductOids == {"a1", "b2"}               \* _id of the products that exist
UnknownOid == "c3"                        \* a well-formed id of no product

\* :productId of the URL: the hex digits of an id, written in lower case or
\* with its letters in upper case
HexParams == [hex : ProductOids \cup {UnknownOid}, upper : BOOLEAN]

\* new mongoose.Types.ObjectId(s), and the cast done by findById: the twelve
\* bytes the hex digits spell, whatever the case of the letters
ObjectIdOf(s) == s.hex

\* ObjectId.prototype.toString: the lower-case hex digits
HexString(oid) == [hex |-> oid, upper |-> FALSE]

NoWishList == [exists |-> FALSE, products |-> << >>]
WishListDoc(products) == [exists |-> TRUE, products |-> products]

-----------------------------------------------------------------------------
(* Review documents (reviewSchema) and review inputs *)

ReviewUsers == {"d4", "e5"}               \* _id of the users behind the token
ReviewProducts == {"a1"}                  \* any well-formed id is accepted

\* :userId of the URL of deleteReview, as the caller spells it
UserParams == [hex : ReviewUsers \cup {UnknownOid}, upper : BOOLEAN]

\* A string of the body: its text without the surrounding white space, and
\* whether white space surrounds it.  Text("", FALSE) is the empty string
\* (or an absent field), Text("", TRUE) is white space only.
Text(core, pad) == [core |-> core, pad |-> pad]
ReviewInputs == {Text("", TRUE), Text("good", FALSE), Text("bad", TRUE)}
UserNameInputs == {Text("", FALSE), Text("Ann", FALSE), Text("Ann B", TRUE)}
RatingInputs == {Null, Num(0), Num(4)}

\* Date.now() of the review requests: the same millisecond or a later one
ReviewClock == {0, 1}

\* !s of the source is ~NonEmpty(s): only the empty string is falsy
NonEmpty(s) == s # Text("", FALSE)

\* trim: true of the schema
Trim(s) == Text(s.core, FALSE)

\* rating || null
RatingOrNull(rating) == IF Truthy(rating) THEN rating ELSE Null

NoReviews == [exists |-> FALSE, reviews |-> << >>]
ReviewDoc(reviews) == [exists |-> TRUE, reviews |-> reviews]

\* The sub-document of one user as the schema's setters store it
SubReview(userId, userName, review, rating, reviewDate) ==
    [userId |-> userId, userName |-> Trim(userName), review |-> Trim(review),
     rating |-> RatingOrNull(rating), reviewDate |-> reviewDate]

\* userName and review are required: the trimmed string must not be empty
ValidReviews(reviews) ==
    \A i \in 1..Len(reviews) :
        NonEmpty(reviews[i].userName) /\ NonEmpty(reviews[i].review)

-----------------------------------------------------------------------------
(* The two copies of the chatbot controller, and a chat request *)

BOT_CONTROLLER == "controllers/ChatBotController.js"   \* routes by rules
PART001 == "unnamed/part_001"                          \* classifies first
ChatVariants == {BOT_CONTROLLER, PART001}
NotStarted == ""

\* The analysis object: none yet, parsed from the classifier, or local.
\* index 0 stands for null; confidence is in hundredths.
NoAnalysis ==
    [source |-> "none", intent |-> "", orderId |-> << >>, index |-> 0,
     action |-> "", confidence |-> 0, text |-> << >>]

\* No request in flight.  found is userOrders.length; picked is the orderDate
\* of the order whose status is replied (0 = none).
IdleChat ==
    [pc |-> "idle", message |-> << >>, userId |-> "", analysis |-> NoAnalysis,
     intent |-> "general", orderId |-> << >>, index |-> 0,
     apiCalls |-> 0, apiOk |-> 0, dbCalls |-> << >>,
     found |-> 0, picked |-> 0,
     code |-> 0, reply |-> "", resIntent |-> ""]

-----------------------------------------------------------------------------
(* openaiWithRetry, cart normalization, address redaction, concurrent       *)
(* requests on one order, password reset: the states before anything runs   *)

\* openaiWithRetry: i is the loop counter, calls counts the calls of
\* openai.chat.completions.create, errs lists the errors they threw
IdleRetry ==
    [pc |-> "idle", payload |-> "", retries |-> 0, i |-> 0, calls |-> 0,
     errs |-> << >>, waited |-> 0, result |-> "", thrown |-> ""]
\* Cart normalization: the raw items, the normalizedCart, the cart and
\* subtotal of localCartReply, and the same for a second normalization that
\* takes the cart of the first as its raw items
NoItems ==
    [pc |-> "idle", raw |-> << >>, normalizedCart |-> << >>, cart |-> << >>,
     subtotal |-> 0, normalizedAgain |-> << >>, cartAgain |-> << >>,
     subtotalAgain |-> 0]
\* Address redaction: the shippingAddress of the order of the reply (a
\* string, or a value of another type) and the text shown for it
NoAddress ==
    [pc |-> "idle", shippingAddress |-> [t |-> "undefined", s |-> << >>],
     shipping |-> << >>]
\* Concurrent requests on one order: the stored document and its version
\* (__v), the total it was created with, the calls in flight (filled in when
\* the order is there), the delivery mails sent
NoRace ==
    [pc |-> "idle", stored |-> << >>, version |-> 0, initial |-> 0,
     calls |-> << >>, delivered |-> 0]
\* bcrypt.hash of a text; bcrypt.compare(text, h) is h = Hash(text)
Hash(text) == [hash |-> text]

\* user.resetPassword: undefined, or the subdocument of resetPasswordSchema
\* (otpHash "" and otpExpires -1 stand for undefined)
NoReset ==
    [set |-> FALSE, otpHash |-> Hash(""), otpExpires |-> -1, otpAttempts |-> 0,
     verified |-> FALSE, resetTokenUsed |-> FALSE]

\* Password reset: the clock, the one registered user (password hash and
\* resetPassword), the last request with its response, and history: the
\* reset tokens issued, those a reset succeeded with, the OTP of the last
\* mail, the wrong validations since the OTP was issued or validated, and
\* whether a validation succeeded since the last issuance and reset
NoResets ==
    [now |-> 0, password |-> Hash("OldPass123"), resetPassword |-> NoReset,
     res |-> [op |-> "none", code |-> 0, msg |-> ""],
     tokens |-> {}, spent |-> {}, mailed |-> "", wrong |-> 0,
     validated |-> FALSE]

-----------------------------------------------------------------------------
(* OTP generation and expiry *)

\* Math.floor(100000 + Math.random() * 900000).toString()
generateOtp(r) == toString(100000 + ((r * 900000) \div RandDen))

\* Date.now() + <window>: 1 day in controllers/OrderController.js,
\* 10 minutes in part_002
OtpWindow(vrt) ==
    IF vrt = CONTROLLER THEN 1 * 24 * 60 * 60 * 1000 ELSE 10 * 60 * 1000

\* "This OTP is valid for 10 minutes" in both copies, in milliseconds
AnnouncedValidity == 10 * 60 * 1000

\* Clock readings at which requests arrive: the start and, for an OTP issued
\* at the start, the last instant it is valid and the first it is expired
ClockReadings(vrt) == {0, OtpWindow(vrt), OtpWindow(vrt) + 1}

OtpInputs == {generateOtp(r) : r \in RandSamples} \cup {Num(100000)}

-----------------------------------------------------------------------------
(* Requests, responses, notifications *)

Req(op, id, code, msg) ==
    [op |-> op, id |-> id, code |-> code, msg |-> msg]

NoMail == [kind |-> "none", order |-> 0, otp |-> Null, validFor |-> 0,
           ok |-> FALSE]
Mail(kind, id, otp, validFor, ok) ==
    [kind |-> kind, order |-> id, otp |-> otp, validFor |-> validFor,
     ok |-> ok]

Exists(id) == id \in 1..Len(orders)

Init ==
    /\ variant \in Variants
    /\ orders = << >>
    /\ now = 0
    /\ last = Req("none", 0, 0, "")
    /\ mail = NoMail
    /\ effects = << >>
    /\ verified = {}
    /\ issued = << >>
    /\ step = 0
    /\ sent = << >>
    /\ carts = [u \in CartUsers |-> NoCart]
    /\ cartRes = Req("none", "", 0, "")
    /\ wishlists = [u \in WishUsers |-> NoWishList]
    /\ wishRes = Req("none", "", 0, "")
    /\ reviewDocs = [p \in ReviewProducts |-> NoReviews]
    /\ reviewRes = Req("none", "", 0, "")
    /\ chatVariant = NotStarted
    /\ chat = IdleChat
    /\ retry = IdleRetry
    /\ norm = NoItems
    /\ addr = NoAddress
    /\ race = NoRace
    /\ pw = NoResets

\* A request answered by an early return: nothing stored, nothing sent
Reject(req) ==
    /\ last' = req
    /\ mail' = NoMail
    /\ effects' = << >>
    /\ UNCHANGED <<variant, orders, now, verified, issued>>

\* await Order.create(..) / await order.save() throws on validation: the
\* handler's catch answers, nothing is stored, the mail code is never reached
SaveFailed(req) ==
    /\ last' = req
    /\ mail' = NoMail
    /\ effects' = <<"saveFailed">>
    /\ UNCHANGED <<variant, orders, now, verified, issued>>

\* Mutant: the notification goes out before the document is saved
SaveThenMail_MailFirst(m) ==
    IF m.kind = "none" THEN <<"save">> ELSE <<"sendMail", "save">>

\* The writes of a handler whose save succeeded, in program order: the save,
\* then sendMail on the paths that have one
SaveThenMail(m) ==
    IF m.kind = "none" THEN <<"save">> ELSE <<"save", "sendMail">>

-----------------------------------------------------------------------------
(* createOrder *)

NewOrder(userId, items, totalAmount, status) ==
    [userId |-> userId,
     items |-> items,
     totalAmount |-> totalAmount,
     status |-> IF status = NoStatus THEN "Pending" ELSE status,
     deliveryOtp |-> Null,
     otpExpiresAt |-> Null,
     otpVerified |-> FALSE]

createOrder(userId, items, totalAmount, status, shippingAddress, mailOk) ==
    /\ Len(orders) < MaxOrders
    /\ LET id == Len(orders) + 1
           doc == NewOrder(userId, items, totalAmount, status)
           R(code, msg) == Req("createOrder", id, code, msg)
       IN  IF userId = "" \/ Len(items) = 0 \/ shippingAddress = ""
           THEN Reject(R(400, "Missing required fields"))
           ELSE IF userId \notin Users
           THEN Reject(R(404, "User not found"))
           ELSE IF ~ValidOrder(doc)
           THEN SaveFailed(R(500, "Internal error"))
           ELSE /\ orders' = Append(orders, doc)
                /\ issued' = Append(issued, {})
                /\ mail' = IF variant = PART002
                           THEN Mail("confirmation", id, Null, 0, mailOk)
                           ELSE NoMail
                /\ last' = R(200, "Order created successfully")
                /\ effects' = SaveThenMail(mail')
                /\ UNCHANGED <<variant, now, verified>>

-----------------------------------------------------------------------------
(* The wall clock *)

\* Date.now() is non-decreasing and may stand still between two requests
Tick(t) ==
    /\ t > now
    /\ now' = t
    /\ UNCHANGED <<variant, orders, last, mail, effects, verified, issued>>

-----------------------------------------------------------------------------
(* updateOrderStatus *)

\* Mutant: an OTP that is already stored is kept when the order is shipped again
ShipOrder_KeepStoredOtp(o, otp, t, vrt) ==
    [o EXCEPT !.deliveryOtp = IF @ = Null THEN otp ELSE @,
              !.otpExpiresAt = IF @ = Null THEN DateOf(t + OtpWindow(vrt)) ELSE @,
              !.status = "Shipped"]

\* The Shipped branch: (re)generate the OTP, set the expiry, set the status
ShipOrder(o, otp, t, vrt) ==
    [o EXCEPT !.deliveryOtp = otp,
              !.otpExpiresAt = DateOf(t + OtpWindow(vrt)),
              !.status = "Shipped"]

\* In controllers/OrderController.js the OTP mail is awaited outside any
\* try/catch of its own, so a rejected sendMail lands in the handler's
\* catch; in part_002 it is wrapped and only logged.
ShippedResponse(vrt, mailOk) ==
    IF vrt = CONTROLLER /\ ~mailOk
    THEN <<500, "Failed to update order">>
    ELSE <<200, "Order updated to Shipped. OTP sent to user.">>

\* if (status === "Delivered") return 400
DirectDelivery_Allowed(status) == FALSE

DirectDelivery(status) == status = "Delivered"

updateOrderStatus(id, status, r, mailOk) ==
    LET R(code, msg) == Req("updateOrderStatus", id, code, msg)
    IN  IF ~Exists(id)
        THEN Reject(R(404, "Order not found"))
        ELSE IF DirectDelivery(status)
        THEN Reject(R(400, "Direct delivery is not allowed"))
        ELSE IF status = "Shipped"
        THEN LET otp == generateOtp(r)
                 doc == ShipOrder(orders[id], otp, now, variant)
                 rsp == ShippedResponse(variant, mailOk)
             IN  IF ~ValidOrder(doc)
                 THEN SaveFailed(R(500, "Failed to update order"))
                 ELSE /\ orders' = [orders EXCEPT ![id] = doc]
                      /\ issued' = [issued EXCEPT ![id] = @ \cup {doc.otpExpiresAt.v}]
                      /\ mail' = Mail("otp", id, otp, AnnouncedValidity, mailOk)
                      /\ last' = R(rsp[1], rsp[2])
                      /\ effects' = SaveThenMail(mail')
                      /\ UNCHANGED <<variant, now, verified>>
        ELSE LET doc == [orders[id] EXCEPT !.status = status]
             IN  IF ~ValidOrder(doc)
                 THEN SaveFailed(R(500, "Failed to update order"))
                 ELSE /\ orders' = [orders EXCEPT ![id] = doc]
                      /\ mail' = IF variant = PART002
                                 THEN Mail("status", id, Null, 0, mailOk)
                                 ELSE NoMail
                      /\ last' = R(200, "Status updated")
                      /\ effects' = SaveThenMail(mail')
                      /\ UNCHANGED <<variant, now, verified, issued>>

-----------------------------------------------------------------------------
(* verifyDeliveryOtp *)

\* Mutant: the expiry instant itself already counts as expired (>= for >)
VerifyError_ExpiredAtExpiry(o, userOtp, t) ==
    IF o.status # "Shipped"
    THEN "OTP can only be verified for Shipped orders."
    ELSE IF ~Truthy(o.deliveryOtp) \/ ~Truthy(o.otpExpiresAt)
    THEN "No OTP generated"
    ELSE IF t >= o.otpExpiresAt.v
    THEN "OTP expired"
    ELSE IF ~StrictEq(o.deliveryOtp, userOtp)
    THEN "Invalid OTP"
    ELSE "none"

\* Mutant: the code is compared before the expiry is looked at
VerifyError_MismatchFirst(o, userOtp, t) ==
    IF o.status # "Shipped"
    THEN "OTP can only be verified for Shipped orders."
    ELSE IF ~Truthy(o.deliveryOtp) \/ ~Truthy(o.otpExpiresAt)
    THEN "No OTP generated"
    ELSE IF ~StrictEq(o.deliveryOtp, userOtp)
    THEN "Invalid OTP"
    ELSE IF t > o.otpExpiresAt.v
    THEN "OTP expired"
    ELSE "none"

\* The chain of early returns after the order was found; "none" = all passed
VerifyError(o, userOtp, t) ==
    IF o.status # "Shipped"
    THEN "OTP can only be verified for Shipped orders."
    ELSE IF ~Truthy(o.deliveryOtp) \/ ~Truthy(o.otpExpiresAt)
    THEN "No OTP generated"
    ELSE IF t > o.otpExpiresAt.v
    THEN "OTP expired"
    ELSE IF ~StrictEq(o.deliveryOtp, userOtp)
    THEN "Invalid OTP"
    ELSE "none"

Deliver(o) ==
    [o EXCEPT !.status = "Delivered",
              !.otpVerified = TRUE,
              !.deliveryOtp = Null,
              !.otpExpiresAt = Null]

verifyDeliveryOtp(id, userOtp, mailOk) ==
    LET R(code, msg) == Req("verifyDeliveryOtp", id, code, msg)
    IN  IF ~Exists(id)
        THEN Reject(R(404, "Order not found"))
        ELSE IF VerifyError(orders[id], userOtp, now) # "none"
        THEN Reject(R(400, VerifyError(orders[id], userOtp, now)))
        ELSE /\ orders' = [orders EXCEPT ![id] = Deliver(@)]
             /\ verified' = verified \cup {id}
             /\ mail' = IF variant = PART002
                        THEN Mail("delivered", id, Null, 0, mailOk)
                        ELSE NoMail
             /\ last' = R(200, "OTP verified. Order delivered.")
             /\ effects' = SaveThenMail(mail')
             /\ UNCHANGED <<variant, now, issued>>

-----------------------------------------------------------------------------
(* cancelOrderItem *)

\* Array.prototype.findIndex on productId; 0 stands for JavaScript's -1
FindIndex(items, productId) ==
    IF \E i \in 1..Len(items) : items[i].productId = productId
    THEN CHOOSE i \in 1..Len(items) :
            /\ items[i].productId = productId
            /\ \A j \in 1..(i - 1) : items[j].productId # productId
    ELSE 0

\* items.splice(idx, 1)
Splice1(items, idx) ==
    SubSeq(items, 1, idx - 1) \o SubSeq(items, idx + 1, Len(items))

\* Mutant: the total is reduced by the unit price, whatever the quantity
CancelItem_UnitPrice(o, idx) ==
    LET item == o.items[idx]
        rest == Splice1(o.items, idx)
    IN  [o EXCEPT !.totalAmount = @ - item.price,
                  !.items = rest,
                  !.status = IF Len(rest) = 0 THEN "Cancelled" ELSE @]

CancelItem(o, idx) ==
    LET item == o.items[idx]
        rest == Splice1(o.items, idx)
    IN  [o EXCEPT !.totalAmount = @ - item.price * item.quantity,
                  !.items = rest,
                  !.status = IF Len(rest) = 0 THEN "Cancelled" ELSE @]

cancelOrderItem(id, productId, mailOk) ==
    LET R(code, msg) == Req("cancelOrderItem", id, code, msg)
    IN  IF ~Exists(id)
        THEN Reject(R(404, "Order not found"))
        ELSE IF FindIndex(orders[id].items, productId) = 0
        THEN Reject(R(404, "Product not in order"))
        ELSE /\ orders' = [orders EXCEPT
                             ![id] = CancelItem(@, FindIndex(@.items, productId))]
             /\ mail' = IF variant = PART002
                        THEN Mail("itemRemoved", id, Null, 0, mailOk)
                        ELSE NoMail
             /\ last' = R(200, "Item removed")
             /\ effects' = SaveThenMail(mail')
             /\ UNCHANGED <<variant, now, verified, issued>>

-----------------------------------------------------------------------------
(* requestReturn *)

requestReturn(id, mailOk) ==
    LET R(code, msg) == Req("requestReturn", id, code, msg)
    IN  IF ~Exists(id)
        THEN Reject(R(404, "Order not found"))
        ELSE /\ orders' = [orders EXCEPT ![id].status = "Return Requested"]
             /\ mail' = IF variant = PART002
                        THEN Mail("return", id, Null, 0, mailOk)
                        ELSE NoMail
             /\ last' = R(200, "Return requested")
             /\ effects' = SaveThenMail(mail')
             /\ UNCHANGED <<variant, now, verified, issued>>

-----------------------------------------------------------------------------
(* The specification *)

\* What the order handlers never touch
notOrderVars == <<walkVars, cartVars, wishVars, reviewVars, chatVars, restVars>>

Next ==
    \/ \E u \in UserIdInputs, items \in ItemLists, s \in CreateStatusInputs,
          a \in AddressInputs, mailOk \in BOOLEAN :
          \E total \in TotalInputs(items) :
             createOrder(u, items, total, s, a, mailOk) /\ UNCHANGED notOrderVars
    \/ \E id \in OrderIds, s \in UpdateStatusInputs, r \in RandSamples,
          mailOk \in BOOLEAN :
          updateOrderStatus(id, s, r, mailOk) /\ UNCHANGED notOrderVars
    \/ \E id \in OrderIds, otp \in OtpInputs, mailOk \in BOOLEAN :
          verifyDeliveryOtp(id, otp, mailOk) /\ UNCHANGED notOrderVars
    \/ \E id \in OrderIds, p \in Products, mailOk \in BOOLEAN :
          cancelOrderItem(id, p, mailOk) /\ UNCHANGED notOrderVars
    \/ \E id \in OrderIds, mailOk \in BOOLEAN :
          requestReturn(id, mailOk) /\ UNCHANGED notOrderVars
    \/ \E t \in ClockReadings(variant) : Tick(t) /\ UNCHANGED notOrderVars

Spec == Init /\ [][Next]_vars

-----------------------------------------------------------------------------
(* The delivery walk-through: one order is created, shipped, verified with   *)
(* a wrong code and then with the stored code before it expires.  `sent'     *)
(* logs every call of sendMail (utils/MailSender.js) made on the way.        *)

\* sendMail was called with m, or was not called at all
Log(m) == IF m.kind = "none" THEN sent ELSE Append(sent, m)

WalkCreate ==
    /\ step = 0
    /\ \E items \in ItemLists, s \in CreateStatusInputs, a \in AddressInputs,
          mailOk \in BOOLEAN :
          \E total \in TotalInputs(items) :
             createOrder("u1", items, total, s, a, mailOk)
    /\ last'.code = 200
    /\ step' = 1
    /\ sent' = Log(mail')

WalkShip ==
    /\ step = 1
    /\ \E r \in RandSamples, mailOk \in BOOLEAN :
          updateOrderStatus(1, "Shipped", r, mailOk)
    /\ step' = 2
    /\ sent' = Log(mail')

WalkVerifyWrong ==
    /\ step = 2
    /\ \E code \in OtpInputs, mailOk \in BOOLEAN :
          /\ ~StrictEq(code, orders[1].deliveryOtp)
          /\ verifyDeliveryOtp(1, code, mailOk)
    /\ step' = 3
    /\ sent' = Log(mail')

WalkVerifyRight ==
    /\ step = 3
    /\ now <= orders[1].otpExpiresAt.v
    /\ \E mailOk \in BOOLEAN :
          verifyDeliveryOtp(1, orders[1].deliveryOtp, mailOk)
    /\ step' = 4
    /\ sent' = Log(mail')

WalkTick ==
    /\ step < 4
    /\ \E t \in ClockReadings(variant) : Tick(t)
    /\ UNCHANGED walkVars

\* What the walk-through never touches
notWalkVars == <<cartVars, wishVars, reviewVars, chatVars, restVars>>

NextWalk ==
    \/ WalkCreate /\ UNCHANGED notWalkVars
    \/ WalkShip /\ UNCHANGED notWalkVars
    \/ WalkVerifyWrong /\ UNCHANGED notWalkVars
    \/ WalkVerifyRight /\ UNCHANGED notWalkVars
    \/ WalkTick /\ UNCHANGED notWalkVars

SpecWalk == Init /\ [][NextWalk]_vars

-----------------------------------------------------------------------------
(* Properties of the order lifecycle *)

StoredIds == 1..Len(orders)

\* C1: in every reachable state every order has deliveryOtp and otpExpiresAt
\* non-null if and only if its status is Shipped and otpVerified is false.
C1_OtpStoredIffShippedUnverified ==
    \A id \in StoredIds :
        (orders[id].deliveryOtp # Null /\ orders[id].otpExpiresAt # Null)
            <=> (orders[id].status = "Shipped" /\ ~orders[id].otpVerified)

\* C2: an order has status Delivered only if an earlier verifyDeliveryOtp on
\* that order succeeded; no other operation produces a Delivered order.
C2_DeliveredOnlyThroughOtp ==
    \A id \in StoredIds : orders[id].status = "Delivered" => id \in verified

\* C3: updateOrderStatus with requested status Delivered is always rejected,
\* whatever the order's current status; the stored orders are unchanged and
\* no notification is sent.
C3_DirectDeliveredRejected ==
    [][\A id \in OrderIds, r \in RandSamples, mailOk \in BOOLEAN :
          updateOrderStatus(id, "Delivered", r, mailOk) =>
              /\ last'.code # 200
              /\ Exists(id) => (last'.code = 400 /\
                                last'.msg = "Direct delivery is not allowed")
              /\ orders' = orders
              /\ mail' = NoMail]_vars

\* C3 witness: a direct Delivered request was rejected on an order that is
\* Shipped with an OTP pending.
C3_Witness ==
    /\ last.op = "updateOrderStatus"
    /\ last.msg = "Direct delivery is not allowed"
    /\ Exists(last.id)
    /\ orders[last.id].status = "Shipped"
    /\ orders[last.id].deliveryOtp # Null

\* The four conditions of C4 on the stored order, the submitted code and the
\* clock, stated as the claim states them.
C4_Conditions(o, code, t) ==
    /\ o.status = "Shipped"
    /\ o.deliveryOtp # Null
    /\ o.otpExpiresAt # Null
    /\ code = o.deliveryOtp
    /\ t <= o.otpExpiresAt.v

\* C4: verifyDeliveryOtp on an existing order succeeds iff status = Shipped,
\* an OTP and expiry are stored, the submitted code equals the stored code and
\* now <= otpExpiresAt; on success the order is Delivered, otpVerified, with
\* deliveryOtp and otpExpiresAt null and items and totalAmount unchanged.
C4_VerifySucceedsIff ==
    [][\A id \in OrderIds, code \in OtpInputs, mailOk \in BOOLEAN :
          (Exists(id) /\ verifyDeliveryOtp(id, code, mailOk)) =>
              /\ (last'.code = 200) <=> C4_Conditions(orders[id], code, now)
              /\ (last'.code = 200) =>
                    /\ orders'[id].status = "Delivered"
                    /\ orders'[id].otpVerified
                    /\ orders'[id].deliveryOtp = Null
                    /\ orders'[id].otpExpiresAt = Null
                    /\ orders'[id].items = orders[id].items
                    /\ orders'[id].totalAmount = orders[id].totalAmount]_vars

\* C4 witness: a verification succeeded exactly at the expiry instant
\* (the order was shipped at time 0, so its expiry was the OTP window).
C4_Witness ==
    /\ last.op = "verifyDeliveryOtp"
    /\ last.code = 200
    /\ orders[last.id].status = "Delivered"
    /\ issued[last.id] = {OtpWindow(variant)}
    /\ now = OtpWindow(variant)

\* The error kinds of C5 in the order the claim gives
C5_FirstError(id, code) ==
    IF ~Exists(id) THEN "OrderNotFound"
    ELSE IF orders[id].status # "Shipped" THEN "NotShippedState"
    ELSE IF orders[id].deliveryOtp = Null \/ orders[id].otpExpiresAt = Null
    THEN "NoOtpIssued"
    ELSE IF now > orders[id].otpExpiresAt.v THEN "OtpExpired"
    ELSE IF orders[id].deliveryOtp # code THEN "OtpMismatch"
    ELSE "none"

\* The error kind a response message stands for
C5_Kind(msg) ==
    CASE msg = "Order not found" -> "OrderNotFound"
      [] msg = "OTP can only be verified for Shipped orders." -> "NotShippedState"
      [] msg = "No OTP generated" -> "NoOtpIssued"
      [] msg = "OTP expired" -> "OtpExpired"
      [] msg = "Invalid OTP" -> "OtpMismatch"
      [] OTHER -> "other"

\* C5: every failing verifyDeliveryOtp leaves the stored orders unchanged
\* (OTP and expiry included, also when the OTP is expired) and reports the
\* first applicable of OrderNotFound, NotShippedState, NoOtpIssued,
\* OtpExpired, OtpMismatch.
C5_FailedVerifyNoOpFirstError ==
    [][\A id \in OrderIds, code \in OtpInputs, mailOk \in BOOLEAN :
          (verifyDeliveryOtp(id, code, mailOk) /\ last'.code # 200) =>
              /\ orders' = orders
              /\ C5_Kind(last'.msg) = C5_FirstError(id, code)]_vars

\* C5 witness: an expired OTP with a wrong code was refused as expired and is
\* still stored.
C5_Witness ==
    /\ last.op = "verifyDeliveryOtp"
    /\ last.msg = "OTP expired"
    /\ orders[last.id].otpExpiresAt # Null
    /\ now > orders[last.id].otpExpiresAt.v

\* What every saved Shipped update does, whichever way the expiry is compared
\* with the earlier ones
C6_Shipped(id) ==
    /\ orders'[id].status = "Shipped"
    /\ orders'[id].deliveryOtp.t = "string"
    /\ orders'[id].deliveryOtp.v \in 100000..999999
    /\ orders'[id].otpExpiresAt = DateOf(now + OtpWindow(variant))
    /\ \A code \in OtpInputs :
          code # orders'[id].deliveryOtp =>
              VerifyError(orders'[id], code, now) # "none"

\* C6 as stated: every saved updateOrderStatus(Shipped), from any prior status,
\* sets status Shipped, stores a new 6-digit code and the expiry now + window,
\* and the new expiry differs from every expiry stored before; an earlier code
\* is accepted no longer unless it equals the new one.
C6_FreshOtpDistinctExpiry ==
    [][\A id \in OrderIds, r \in RandSamples, mailOk \in BOOLEAN :
          (Exists(id) /\ updateOrderStatus(id, "Shipped", r, mailOk)) =>
              /\ C6_Shipped(id)
              /\ orders'[id].otpExpiresAt.v \notin issued[id]]_vars

\* C6 amended: as above, but the new expiry is never earlier than an expiry
\* stored before (it equals one issued at the same clock reading).
C6_FreshOtpLatestExpiry ==
    [][\A id \in OrderIds, r \in RandSamples, mailOk \in BOOLEAN :
          (Exists(id) /\ updateOrderStatus(id, "Shipped", r, mailOk)) =>
              /\ C6_Shipped(id)
              /\ \A e \in issued[id] : e <= orders'[id].otpExpiresAt.v]_vars

\* C6 witness: an order shipped twice at different clock readings now holds
\* the second expiry and a code other than the lowest one.
C6_Witness ==
    /\ last.op = "updateOrderStatus"
    /\ mail.kind = "otp"
    /\ Cardinality(issued[last.id]) = 2
    /\ orders[last.id].status = "Shipped"
    /\ orders[last.id].otpExpiresAt.v = now + OtpWindow(variant)
    /\ orders[last.id].deliveryOtp # generateOtp(0)

\* C7: every saved Shipped update stores an expiry whose distance from the
\* issuance time lies between 10 and 15 minutes and equals the validity
\* announced in the shipment notification.
C7_WindowTenToFifteenMinutes ==
    [][\A id \in OrderIds, r \in RandSamples, mailOk \in BOOLEAN :
          (Exists(id) /\ updateOrderStatus(id, "Shipped", r, mailOk)) =>
              LET w == orders'[id].otpExpiresAt.v - now
              IN  /\ w >= 10 * 60 * 1000
                  /\ w <= 15 * 60 * 1000
                  /\ w = mail'.validFor]_vars

\* C8: cancelOrderItem with a matching product reference removes one matching
\* line item, reduces totalAmount by its price x quantity, leaves the other
\* items as they were and sets status Cancelled iff it was the last item;
\* with no match it fails with ProductNotInOrder and changes nothing.
C8_CancelRemovesOneItem ==
    [][\A id \in OrderIds, p \in Products, mailOk \in BOOLEAN :
          (Exists(id) /\ cancelOrderItem(id, p, mailOk)) =>
              LET o == orders[id]
                  n == orders'[id]
                  matches == {i \in 1..Len(o.items) : o.items[i].productId = p}
              IN  IF matches = {}
                  THEN /\ last'.code = 404
                       /\ last'.msg = "Product not in order"
                       /\ orders' = orders
                  ELSE /\ last'.code = 200
                       /\ \E i \in matches :
                            /\ Len(n.items) = Len(o.items) - 1
                            /\ \A j \in 1..Len(n.items) :
                                  n.items[j] = IF j < i THEN o.items[j]
                                               ELSE o.items[j + 1]
                            /\ n.totalAmount = o.totalAmount
                                  - o.items[i].price * o.items[i].quantity
                       /\ n.status = IF Len(o.items) = 1 THEN "Cancelled"
                                     ELSE o.status
                       /\ n.deliveryOtp = o.deliveryOtp
                       /\ n.otpExpiresAt = o.otpExpiresAt
                       /\ n.otpVerified = o.otpVerified]_vars

\* C8 witness: one of two line items was cancelled, the one left has a
\* quantity above 1, and the order is not Cancelled.
C8_Witness ==
    /\ last.op = "cancelOrderItem"
    /\ last.code = 200
    /\ Len(orders[last.id].items) = 1
    /\ orders[last.id].items[1].quantity > 1
    /\ orders[last.id].status # "Cancelled"

\* C9: for every order, after creation and after any item cancellations,
\* totalAmount is the sum of price x quantity over the items in the order.
C9_TotalIsSumOfItems ==
    \A id \in StoredIds :
        orders[id].totalAmount = SumItems(orders[id].items)

\* C10: when the notification of an operation fails, the operation still
\* answers with its success response and its state change is stored.
C10_MailFailureNeverFailsOperation ==
    (mail.kind # "none" /\ ~mail.ok) =>
        /\ last.code = 200
        /\ Exists(mail.order)

\* C11: in every order operation the notification is attempted only after
\* the save of that operation has succeeded; a request that was rejected or
\* whose save failed sends no notification.
C11_SaveBeforeNotification ==
    /\ \A i \in 1..Len(effects) :
          effects[i] = "sendMail" => \E j \in 1..(i - 1) : effects[j] = "save"
    /\ mail.kind # "none" <=> \E i \in 1..Len(effects) : effects[i] = "sendMail"
    /\ (\A i \in 1..Len(effects) : effects[i] # "save") => mail = NoMail
    /\ last.code \in {400, 404} => effects = << >>

\* C11 witnesses: a status update was saved and then notified; and a status
\* update whose save failed on validation sent nothing.
C11_Witness ==
    /\ last.op = "updateOrderStatus"
    /\ effects = <<"save", "sendMail">>
    /\ mail.kind = "status"
    /\ orders[last.id].status = "Processing"

\* Mails of one kind sent for one order during the walk-through
C12_Sent(kind, id) ==
    {i \in 1..Len(sent) : sent[i].kind = kind /\ sent[i].order = id}

\* C12: in create -> updateOrderStatus(Shipped) -> verifyDeliveryOtp(wrong)
\* -> verifyDeliveryOtp(correct, before expiry) the owner is notified exactly
\* once for the shipment (with the stored code and the order id) and exactly
\* once for the delivery; the rejected verification sends nothing and
\* changes nothing.
C12_NotifiedOncePerStage ==
    /\ step \in 2..4 => Cardinality(C12_Sent("otp", 1)) = 1
    /\ step \in 2..3 =>
          /\ \A i \in C12_Sent("otp", 1) : sent[i].otp = orders[1].deliveryOtp
          /\ orders[1].status = "Shipped"
          /\ C12_Sent("delivered", 1) = {}
    /\ step = 3 => (last.code = 400 /\ mail = NoMail)
    /\ step = 4 => Cardinality(C12_Sent("delivered", 1)) = 1

\* C13: requestReturn on any existing order, whatever its status, sets the
\* status to Return Requested and notifies the owner; it fails only when the
\* order does not exist, and it changes no other field of the order.
C13_ReturnRequestedAndNotified ==
    [][\A id \in OrderIds, mailOk \in BOOLEAN :
          requestReturn(id, mailOk) =>
              IF Exists(id)
              THEN /\ last'.code = 200
                   /\ orders' = [orders EXCEPT ![id].status = "Return Requested"]
                   /\ mail'.kind = "return"
                   /\ mail'.order = id
              ELSE /\ last'.code = 404
                   /\ orders' = orders
                   /\ mail' = NoMail]_vars

-----------------------------------------------------------------------------
(* CartController.js *)

notCartVars == <<orderVars, walkVars, wishVars, reviewVars, chatVars, restVars>>

CartReply(req) ==
    /\ cartRes' = req
    /\ UNCHANGED carts

\* Mutant: a line is dropped only when its quantity falls below zero
ChangeQuantity_BelowZero(items, idx, quantityDelta) ==
    IF items[idx].quantity + quantityDelta < 0
    THEN Splice1(items, idx)
    ELSE [items EXCEPT ![idx].quantity = @ + quantityDelta]

\* quantity += quantityDelta; if (quantity <= 0) splice(itemIndex, 1)
ChangeQuantity(items, idx, quantityDelta) ==
    IF items[idx].quantity + quantityDelta <= 0
    THEN Splice1(items, idx)
    ELSE [items EXCEPT ![idx].quantity = @ + quantityDelta]

\* The items of an existing cart after the body's line was applied
UpdatedItems(items, productId, quantityDelta) ==
    LET itemIndex == FindIndex(items, productId)
    IN  IF itemIndex > 0
        THEN ChangeQuantity(items, itemIndex, quantityDelta)
        ELSE IF quantityDelta > 0
        THEN Append(items, [productId |-> productId, quantity |-> quantityDelta])
        ELSE items

\* complete = FALSE: items[] or one of title, price, img, productId is missing
addToCart(userId, productId, quantityDelta, complete) ==
    LET R(code, msg) == Req("addToCart", userId, code, msg)
        cart == carts[userId]
        new == <<[productId |-> productId, quantity |-> quantityDelta]>>
    IN  IF ~complete
        THEN CartReply(R(400, "Missing required fields for cart operation."))
        ELSE IF cart.exists
        THEN LET items == UpdatedItems(cart.items, productId, quantityDelta)
             IN  /\ \A i \in 1..Len(items) :
                       items[i].quantity <= MaxQty * QtyScale
                 /\ IF ~ValidCart(items)
                    THEN CartReply(R(500, "Error adding/updating item in cart"))
                    ELSE /\ carts' = [carts EXCEPT ![userId] = CartDoc(items)]
                         /\ cartRes' = R(200, "Cart updated successfully")
        ELSE IF quantityDelta > 0
        THEN IF ~ValidCart(new)
             THEN CartReply(R(500, "Error adding/updating item in cart"))
             ELSE /\ carts' = [carts EXCEPT ![userId] = CartDoc(new)]
                  /\ cartRes' = R(201, "Cart created and product added")
        ELSE CartReply(R(404, "Cart not found for user, cannot decrease quantity."))

\* Array.prototype.filter: the lines of another product, in their order
RECURSIVE WithoutProduct(_, _)
WithoutProduct(items, productId) ==
    IF items = << >> THEN << >>
    ELSE IF Head(items).productId = productId
    THEN WithoutProduct(Tail(items), productId)
    ELSE <<Head(items)>> \o WithoutProduct(Tail(items), productId)

removeFromCart(userId, productId) ==
    LET R(code, msg) == Req("removeFromCart", userId, code, msg)
    IN  IF userId \notin CartUsers \/ ~carts[userId].exists
        THEN CartReply(R(404, "Cart not found"))
        ELSE LET items == WithoutProduct(carts[userId].items, productId)
             IN  IF Len(items) = 0
                 THEN /\ carts' = [carts EXCEPT ![userId] = NoCart]
                      /\ cartRes' = R(200, "Cart deleted because no items left")
                 ELSE /\ carts' = [carts EXCEPT ![userId] = CartDoc(items)]
                      /\ cartRes' = R(200, "Item removed from cart")

deleteAfterOrdering(userId) ==
    LET R(code, msg) == Req("deleteAfterOrdering", userId, code, msg)
    IN  IF userId \notin CartUsers \/ ~carts[userId].exists
        THEN CartReply(R(404, "Cart not found for the user"))
        ELSE /\ carts' = [carts EXCEPT ![userId] = NoCart]
             /\ cartRes' = R(200, "Cart deleted after ordering")

NextCart ==
    \/ \E u \in CartUsers, p \in CartProducts, d \in DeltaInputs,
          complete \in BOOLEAN :
          addToCart(u, p, d, complete) /\ UNCHANGED notCartVars
    \/ \E u \in CartUserParams, p \in CartProducts :
          removeFromCart(u, p) /\ UNCHANGED notCartVars
    \/ \E u \in CartUserParams :
          deleteAfterOrdering(u) /\ UNCHANGED notCartVars

SpecCart == Init /\ [][NextCart]_vars

-----------------------------------------------------------------------------
(* Properties of the cart *)

C14_QuantitiesAtLeastOne ==
    \A u \in CartUsers : \A i \in 1..Len(carts[u].items) :
        carts[u].items[i].quantity >= 1 * QtyScale

\* C14: after any sequence of addToCart (positive or negative quantityDelta)
\* and removeFromCart calls every line of every stored cart has quantity >= 1;
\* a line whose quantity would reach <= 0 is removed, and a non-positive
\* delta for a product that is not in the cart adds nothing.
C14_CartLinesPositive ==
    [][/\ C14_QuantitiesAtLeastOne'
       /\ \A u \in CartUsers, p \in CartProducts, d \in DeltaInputs :
             (carts[u].exists /\ addToCart(u, p, d, TRUE)) =>
                LET old == carts[u].items
                    i == FindIndex(old, p)
                IN  /\ (i > 0 /\ old[i].quantity + d <= 0) =>
                           /\ cartRes'.code = 200
                           /\ carts'[u].items = Splice1(old, i)
                    /\ (i = 0 /\ d <= 0) => carts' = carts
       /\ \A u \in CartUsers, p \in CartProducts, d \in DeltaInputs :
             (~carts[u].exists /\ d <= 0 /\ addToCart(u, p, d, TRUE)) =>
                carts' = carts]_vars

\* C14 witness: an addToCart with a negative delta removed the only line of
\* one cart while another cart holds two lines.
C14_Witness ==
    \E u, v \in CartUsers :
        /\ cartRes = Req("addToCart", u, 200, "Cart updated successfully")
        /\ carts[u].exists
        /\ carts[u].items = << >>
        /\ Len(carts[v].items) = 2

\* C15: a cart with zero items is deleted entirely: after any sequence of
\* addToCart, removeFromCart and deleteAfterOrdering calls no stored cart has
\* an empty items list.
C15_NoEmptyCartStored ==
    \A u \in CartUsers : carts[u].exists => Len(carts[u].items) > 0

-----------------------------------------------------------------------------
(* WishListController.js *)

notWishVars == <<orderVars, walkVars, cartVars, reviewVars, chatVars, restVars>>

WishReply(req) ==
    /\ wishRes' = req
    /\ UNCHANGED wishlists

\* getWishlist creates an empty wishlist for a user who has none
getWishlist(userId) ==
    /\ wishRes' = Req("getWishlist", userId, 200, "")
    /\ wishlists' = IF wishlists[userId].exists THEN wishlists
                    ELSE [wishlists EXCEPT ![userId] = WishListDoc(<< >>)]

\* wishlist.products.some(id => id.toString() === productId)
AlreadyListed(products, productId) ==
    \E i \in 1..Len(products) : HexString(products[i]) = productId

addProductToWishlist(userId, productId) ==
    LET R(code, msg) == Req("addProductToWishlist", userId, code, msg)
        wishlist == wishlists[userId]
    IN  IF ObjectIdOf(productId) \notin ProductOids
        THEN WishReply(R(404, "Product not found for the given ID"))
        ELSE IF ~wishlist.exists
        THEN /\ wishlists' = [wishlists EXCEPT
                    ![userId] = WishListDoc(<<ObjectIdOf(productId)>>)]
             /\ wishRes' = R(201, "New wishlist created successfully and product added to wishlist")
        ELSE IF AlreadyListed(wishlist.products, productId)
        THEN WishReply(R(409, "Product already exists in the wishlist!"))
        ELSE /\ Len(wishlist.products) < MaxWish
             /\ wishlists' = [wishlists EXCEPT ![userId] =
                    WishListDoc(Append(wishlist.products, ObjectIdOf(productId)))]
             /\ wishRes' = R(200, "")

\* wishlist.products.filter(id => id.toString() !== productId)
RECURSIVE NotMatching(_, _)
NotMatching(products, productId) ==
    IF products = << >> THEN << >>
    ELSE IF HexString(Head(products)) # productId
    THEN <<Head(products)>> \o NotMatching(Tail(products), productId)
    ELSE NotMatching(Tail(products), productId)

removeProductFromWishlist(userId, productId) ==
    LET R(code, msg) == Req("removeProductFromWishlist", userId, code, msg)
        wishlist == wishlists[userId]
        kept == NotMatching(wishlist.products, productId)
    IN  IF ~wishlist.exists
        THEN WishReply(R(404, "Wishlist not found for this user."))
        ELSE IF Len(kept) = Len(wishlist.products)
        THEN WishReply(R(404, "Product not found in wishlist."))
        ELSE /\ wishlists' = [wishlists EXCEPT ![userId] = WishListDoc(kept)]
             /\ wishRes' = R(200, "")

NextWish ==
    \/ \E u \in WishUsers : getWishlist(u) /\ UNCHANGED notWishVars
    \/ \E u \in WishUsers, p \in HexParams :
          addProductToWishlist(u, p) /\ UNCHANGED notWishVars
    \/ \E u \in WishUsers, p \in HexParams :
          removeProductFromWishlist(u, p) /\ UNCHANGED notWishVars

SpecWish == Init /\ [][NextWish]_vars

-----------------------------------------------------------------------------
(* Properties of the wishlist *)

C16_NoDuplicates(w) ==
    \A i, j \in 1..Len(w.products) : i # j => w.products[i] # w.products[j]

\* C16: after any sequence of addProductToWishlist and
\* removeProductFromWishlist calls no wishlist holds the same product
\* reference twice; adding a product that is already in the caller's wishlist
\* is rejected with a conflict and leaves the wishlist unchanged.
C16_WishlistHasNoDuplicates ==
    [][/\ \A u \in WishUsers : C16_NoDuplicates(wishlists'[u])
       /\ \A u \in WishUsers, p \in HexParams :
             (/\ addProductToWishlist(u, p)
              /\ \E i \in 1..Len(wishlists[u].products) :
                    wishlists[u].products[i] = ObjectIdOf(p)) =>
                 /\ wishRes'.code = 409
                 /\ wishlists' = wishlists]_vars

-----------------------------------------------------------------------------
(* ReviewController.js *)

notReviewVars == <<variant, orders, last, mail, effects, verified, issued,
                   walkVars, cartVars, wishVars, chatVars, restVars>>

ReviewReply(req) ==
    /\ reviewRes' = req
    /\ UNCHANGED reviewDocs

\* reviews.findIndex(r => r.userId.toString() === <string>); 0 for -1
UserReviewIndex(reviews, userIdString) ==
    IF \E i \in 1..Len(reviews) : HexString(reviews[i].userId) = userIdString
    THEN CHOOSE i \in 1..Len(reviews) :
            /\ HexString(reviews[i].userId) = userIdString
            /\ \A j \in 1..(i - 1) : HexString(reviews[j].userId) # userIdString
    ELSE 0

\* Mutant: a second submission is pushed after the entries already stored
Resubmit_Push(reviews, idx, userName, review, rating) ==
    Append(reviews,
           SubReview(reviews[idx].userId, userName, review, rating,
                     reviews[idx].reviewDate))

\* The branch userReviewIndex > -1: the entry is overwritten where it is,
\* and keeps its reviewDate
Resubmit(reviews, idx, userName, review, rating) ==
    [reviews EXCEPT ![idx] =
        SubReview(@.userId, userName, review, rating, @.reviewDate)]

addReview(productId, userId, review, rating, userName) ==
    LET R(code, msg) == Req("addReview", userId, code, msg)
        doc == reviewDocs[productId]
        idx == UserReviewIndex(doc.reviews, HexString(userId))
        new == SubReview(userId, userName, review, rating, now)
        reviews == IF ~doc.exists THEN <<new>>
                   ELSE IF idx > 0
                   THEN Resubmit(doc.reviews, idx, userName, review, rating)
                   ELSE Append(doc.reviews, new)
    IN  /\ UNCHANGED now
        /\ IF ~NonEmpty(review) \/ ~NonEmpty(userName)
           THEN ReviewReply(R(400, "Product ID, review text, and user name are required."))
           ELSE IF ~ValidReviews(reviews)
           THEN ReviewReply(R(500, "Error creating review"))
           ELSE /\ reviewDocs' = [reviewDocs EXCEPT ![productId] = ReviewDoc(reviews)]
                /\ reviewRes' =
                      IF ~doc.exists THEN R(200, "Review created successfully")
                      ELSE IF idx > 0 THEN R(200, "Review updated successfully")
                      ELSE R(200, "Review added successfully")

deleteReview(productId, userId) ==
    LET R(code, msg) == Req("deleteReview", userId.hex, code, msg)
        doc == reviewDocs[productId]
        idx == UserReviewIndex(doc.reviews, userId)
    IN  /\ UNCHANGED now
        /\ IF ~doc.exists
           THEN ReviewReply(R(404, "No reviews found for this product"))
           ELSE IF idx = 0
           THEN ReviewReply(R(404, "Review not found for this user"))
           ELSE /\ reviewDocs' = [reviewDocs EXCEPT ![productId] =
                                     ReviewDoc(Splice1(doc.reviews, idx))]
                /\ reviewRes' = R(200, "Review deleted successfully")

\* Time passes between two review requests
ReviewTick(t) ==
    /\ t > now
    /\ now' = t
    /\ UNCHANGED reviewVars

NextReview ==
    \/ \E p \in ReviewProducts, u \in ReviewUsers, review \in ReviewInputs,
          rating \in RatingInputs, userName \in UserNameInputs :
          addReview(p, u, review, rating, userName) /\ UNCHANGED notReviewVars
    \/ \E p \in ReviewProducts, u \in UserParams :
          deleteReview(p, u) /\ UNCHANGED notReviewVars
    \/ \E t \in ReviewClock : ReviewTick(t) /\ UNCHANGED notReviewVars

SpecReview == Init /\ [][NextReview]_vars

-----------------------------------------------------------------------------
(* Properties of the reviews *)

C17_OnePerUser(doc) ==
    \A i, j \in 1..Len(doc.reviews) :
        i # j => doc.reviews[i].userId # doc.reviews[j].userId

\* C17: after any sequence of addReview and deleteReview calls a product's
\* review document holds at most one sub-review per user; addReview by a
\* user who already reviewed the product replaces the text, rating and user
\* name of that entry in place: the number of sub-reviews, the position of
\* the entry and every other entry stay as they were.
C17_OneReviewPerUserUpsert ==
    [][/\ \A p \in ReviewProducts : C17_OnePerUser(reviewDocs'[p])
       /\ \A p \in ReviewProducts, u \in ReviewUsers, review \in ReviewInputs,
             rating \in RatingInputs, userName \in UserNameInputs :
             LET old == reviewDocs[p].reviews
                 new == reviewDocs'[p].reviews
                 i == UserReviewIndex(old, HexString(u))
             IN  (/\ i > 0
                  /\ reviewRes'.op = "addReview"
                  /\ reviewRes'.id = u
                  /\ addReview(p, u, review, rating, userName)) =>
                    /\ Len(new) = Len(old)
                    /\ new[i].userId = u
                    /\ \A j \in 1..Len(old) : j # i => new[j] = old[j]
                    /\ reviewRes'.code = 200 =>
                          /\ new[i].review = Trim(review)
                          /\ new[i].userName = Trim(userName)
                          /\ new[i].rating = RatingOrNull(rating)
                          /\ new[i].reviewDate = old[i].reviewDate
                    /\ reviewRes'.code # 200 => new = old]_vars

\* C17 witness: the first of two reviewers submitted again at a later time:
\* the entry is still first, carries the new text and name and its first
\* date, and the other entry is behind it.
C17_Witness ==
    \E p \in ReviewProducts, u \in ReviewUsers :
        /\ reviewRes = Req("addReview", u, 200, "Review updated successfully")
        /\ Len(reviewDocs[p].reviews) = 2
        /\ reviewDocs[p].reviews[1].userId = u
        /\ reviewDocs[p].reviews[1].review = Text("bad", FALSE)
        /\ reviewDocs[p].reviews[1].userName = Text("Ann B", FALSE)
        /\ reviewDocs[p].reviews[1].reviewDate < now
        /\ reviewDocs[p].reviews[2].review = Text("good", FALSE)

-----------------------------------------------------------------------------
(* JavaScript strings of the chat messages: sequences of one-character    *)
(* strings, with the String methods and regular expressions the chatbot    *)
(* applies to them.                                                        *)

LowerLetters ==
    <<"a", "b", "c", "d", "e", "f", "g", "h", "i", "j", "k", "l", "m", "n", "o", "p", "q", "r", "s", "t", "u", "v", "w", "x", "y", "z">>

UpperLetters ==
    <<"A", "B", "C", "D", "E", "F", "G", "H", "I", "J", "K", "L", "M", "N", "O", "P", "Q", "R", "S", "T", "U", "V", "W", "X", "Y", "Z">>

Digits == <<"0", "1", "2", "3", "4", "5", "6", "7", "8", "9">>


Range(f) == {f[i] : i \in DOMAIN f}

ToLowerChar(c) ==
    IF c \in Range(UpperLetters)
    THEN LowerLetters[CHOOSE i \in DOMAIN UpperLetters : UpperLetters[i] = c]
    ELSE c

\* String.prototype.toLowerCase
toLowerCase(s) == [i \in 1..Len(s) |-> ToLowerChar(s[i])]

\* String.prototype.trim, for messages whose white space is the blank
trim(s) ==
    IF \A i \in 1..Len(s) : s[i] = " " THEN << >>
    ELSE LET a == CHOOSE i \in 1..Len(s) :
                     s[i] # " " /\ \A j \in 1..(i - 1) : s[j] = " "
             b == CHOOSE i \in 1..Len(s) :
                     s[i] # " " /\ \A j \in (i + 1)..Len(s) : s[j] = " "
         IN  SubSeq(s, a, b)

\* sub occurs in s at index i
OccursAt(s, sub, i) ==
    /\ i + Len(sub) - 1 <= Len(s)
    /\ SubSeq(s, i, i + Len(sub) - 1) = sub

\* String.prototype.includes / startsWith
includes(s, sub) == \E i \in 1..(Len(s) + 1) : OccursAt(s, sub, i)
startsWith(s, sub) == OccursAt(s, sub, 1)

\* [A-Za-z0-9\-\_]
IsIdChar(c) ==
    c \in Range(LowerLetters) \cup Range(UpperLetters) \cup Range(Digits)
          \cup {"-", "_"}

\* The index after the run of characters of a class that starts at i
RECURSIVE SkipSpaces(_, _)
SkipSpaces(s, i) ==
    IF i <= Len(s) /\ s[i] = " " THEN SkipSpaces(s, i + 1) ELSE i

RECURSIVE SkipIdChars(_, _)
SkipIdChars(s, i) ==
    IF i <= Len(s) /\ IsIdChar(s[i]) THEN SkipIdChars(s, i + 1) ELSE i

RECURSIVE SkipDigits(_, _)
SkipDigits(s, i) ==
    IF i <= Len(s) /\ s[i] \in Range(Digits) THEN SkipDigits(s, i + 1) ELSE i

\* No match of a regular expression, and the absent string (null, undefined)
NoString == << >>

\* (?:track order|order id|order|order#|order #|tracking|tracking number)
OrderKeywords ==
    <<<<"t", "r", "a", "c", "k", " ", "o", "r", "d", "e", "r">>,
      <<"o", "r", "d", "e", "r", " ", "i", "d">>,
      <<"o", "r", "d", "e", "r">>,
      <<"o", "r", "d", "e", "r", "#">>,
      <<"o", "r", "d", "e", "r", " ", "#">>,
      <<"t", "r", "a", "c", "k", "i", "n", "g">>,
      <<"t", "r", "a", "c", "k", "i", "n", "g", " ", "n", "u", "m", "b", "e", "r">>>>


\* \s*[:#]?\s*([A-Za-z0-9\-\_]{4,}) from index i on: the captured group,
\* or NoString
OrderIdTail(s, i) ==
    LET a == SkipSpaces(s, i)
        b == IF a <= Len(s) /\ s[a] \in {":", "#"} THEN a + 1 ELSE a
        c == SkipSpaces(s, b)
        d == SkipIdChars(s, c)
    IN  IF d - c >= 4 THEN SubSeq(s, c, d - 1) ELSE NoString

\* The capture of the first alternative, in the order of the pattern, that
\* matches at index i together with the tail
RECURSIVE OrderIdAt(_, _, _)
OrderIdAt(s, i, k) ==
    IF k > Len(OrderKeywords) THEN NoString
    ELSE LET kw == OrderKeywords[k]
             hit == /\ OccursAt(toLowerCase(s), kw, i)
                    /\ OrderIdTail(s, i + Len(kw)) # NoString
         IN  IF hit THEN OrderIdTail(s, i + Len(kw))
             ELSE OrderIdAt(s, i, k + 1)

\* rawMessage.match(/(?:track order|...)\s*[:#]?\s*([A-Za-z0-9\-\_]{4,})/i)?.[1]
RECURSIVE OrderIdFrom(_, _)
OrderIdFrom(s, i) ==
    IF i > Len(s) THEN NoString
    ELSE IF OrderIdAt(s, i, 1) # NoString THEN OrderIdAt(s, i, 1)
    ELSE OrderIdFrom(s, i + 1)

OrderIdMatch(s) == OrderIdFrom(s, 1)

\* rawMessage.match(/([A-Za-z0-9\-\_]{4,})/)?.[1]: the first run of four or
\* more id characters
RECURSIVE FirstIdRunFrom(_, _)
FirstIdRunFrom(s, i) ==
    IF i > Len(s) THEN NoString
    ELSE IF SkipIdChars(s, i) - i >= 4 THEN SubSeq(s, i, SkipIdChars(s, i) - 1)
    ELSE IF SkipIdChars(s, i) > i THEN FirstIdRunFrom(s, SkipIdChars(s, i))
    ELSE FirstIdRunFrom(s, i + 1)

FirstIdRun(s) == FirstIdRunFrom(s, 1)

\* parseInt of one or two decimal digits
DigitValue(c) == (CHOOSE i \in DOMAIN Digits : Digits[i] = c) - 1
ParseDigits(s) ==
    IF Len(s) = 1 THEN DigitValue(s[1])
    ELSE 10 * DigitValue(s[1]) + DigitValue(s[2])

\* rawMessage.trim().match(/^(\d{1,2})$/)?.[1]
WholeNumber(s) ==
    IF Len(trim(s)) \in 1..2 /\ SkipDigits(trim(s), 1) = Len(trim(s)) + 1
    THEN trim(s) ELSE NoString

Remove == <<"r", "e", "m", "o", "v", "e">>


\* rawMessage.match(/remove\s+(\d{1,2})/i)?.[1] at index i
RemoveAt(s, i) ==
    LET a == i + Len(Remove)
        b == SkipSpaces(s, a)
        c == SkipDigits(s, b)
    IN  IF OccursAt(toLowerCase(s), Remove, i) /\ b > a /\ c > b
        THEN SubSeq(s, b, IF c - b > 2 THEN b + 1 ELSE c - 1)
        ELSE NoString

RemoveIndex(s) ==
    IF \E i \in 1..Len(s) : RemoveAt(s, i) # NoString
    THEN RemoveAt(s, CHOOSE i \in 1..Len(s) :
                        /\ RemoveAt(s, i) # NoString
                        /\ \A j \in 1..(i - 1) : RemoveAt(s, j) = NoString)
    ELSE NoString

\* /^(hi|hello|hey|good morning|good afternoon)/i
GreetingPrefixes ==
    {<<"h", "i">>,
     <<"h", "e", "l", "l", "o">>,
     <<"h", "e", "y">>,
     <<"g", "o", "o", "d", " ", "m", "o", "r", "n", "i", "n", "g">>,
     <<"g", "o", "o", "d", " ", "a", "f", "t", "e", "r", "n", "o", "o", "n">>}


IsGreeting(s) == \E g \in GreetingPrefixes : startsWith(toLowerCase(s), g)

\* The words the router looks for
W_Cart == <<"c", "a", "r", "t">>
W_MyCart == <<"m", "y", " ", "c", "a", "r", "t">>
W_ShowCart == <<"s", "h", "o", "w", " ", "c", "a", "r", "t">>
W_Track == <<"t", "r", "a", "c", "k">>
W_TrackSp == <<"t", "r", "a", "c", "k", " ">>
W_TrackOrder == <<"t", "r", "a", "c", "k", " ", "o", "r", "d", "e", "r">>
W_TrackMyOrder == <<"t", "r", "a", "c", "k", " ", "m", "y", " ", "o", "r", "d", "e", "r">>
W_Checkout == <<"c", "h", "e", "c", "k", "o", "u", "t">>
W_ReturnPolicy == <<"r", "e", "t", "u", "r", "n", " ", "p", "o", "l", "i", "c", "y">>
W_Returns == <<"r", "e", "t", "u", "r", "n", "s">>
W_Shipping == <<"s", "h", "i", "p", "p", "i", "n", "g">>
W_Payment == <<"p", "a", "y", "m", "e", "n", "t">>
W_Hello == <<"h", "e", "l", "l", "o">>
W_Hi == <<"h", "i">>
W_Hey == <<"h", "e", "y">>
W_RecentOrders == <<"r", "e", "c", "e", "n", "t", " ", "o", "r", "d", "e", "r", "s">>
W_MyOrder == <<"m", "y", " ", "o", "r", "d", "e", "r">>
W_RecentPurchases == <<"r", "e", "c", "e", "n", "t", " ", "p", "u", "r", "c", "h", "a", "s", "e", "s">>
W_PurchaseHistory == <<"p", "u", "r", "c", "h", "a", "s", "e", " ", "h", "i", "s", "t", "o", "r", "y">>


\* The messages of the model
MsgBlank == <<" ", " ">>
MsgHi == <<"h", "i">>
MsgMyCart == <<"m", "y", " ", "c", "a", "r", "t">>
MsgTrackOrd == <<"t", "r", "a", "c", "k", " ", "o", "r", "d", "e", "r", " ", "O", "R", "D", "1", "2", "3">>
MsgTrackMine == <<"T", "r", "a", "c", "k", " ", "m", "y", " ", "o", "r", "d", "e", "r">>
MsgShipping == <<"S", "h", "i", "p", "p", "i", "n", "g", "?">>
MsgRecent == <<"r", "e", "c", "e", "n", "t", " ", "o", "r", "d", "e", "r", "s">>
MsgRefund == <<"r", "e", "f", "u", "n", "d", " ", "s", "t", "a", "t", "u", "s">>
MsgTwo == <<"2">>

MsgAbsent == NoString
Messages ==
    {MsgAbsent, MsgBlank, MsgHi, MsgMyCart, MsgTrackOrd, MsgTrackMine, MsgShipping, MsgRecent, MsgRefund, MsgTwo}

-----------------------------------------------------------------------------
(* Chatbot inputs: caller, classifier and completion service, database *)

ChatUserIds == {"", "u1"}                 \* userId of the body; "" = absent

\* openaiWithRetry(payload, 1) makes at most 1 + retries calls; an outcome of
\* the service is the number of calls that fail before one succeeds
Retries == 1
FailureInputs == 0..(Retries + 1)

\* The intents the classifier is told to choose from
ClassifierIntents ==
    {"track_order", "cart", "recent_orders", "remove_item", "checkout",
     "greeting", "returns", "shipping", "payments", "select_order",
     "openai_answer", "unknown"}

ClassifierConfidence == 95
LocalConfidence == 40                      \* confidence: 0.4

Ord123 == <<"O", "R", "D", "1", "2", "3">>

\* What the classifier answers when it answers: text that holds no JSON
\* object, or a JSON object: with or without an intent, with or without an
\* order id
Garbage == [NoAnalysis EXCEPT !.source = "garbage"]
Parsed(intent, orderId, text) ==
    [source |-> "classifier", intent |-> intent, orderId |-> orderId,
     index |-> 0, action |-> "", confidence |-> ClassifierConfidence,
     text |-> text]
ClassifierAnswers(rawMessage) ==
    {Garbage,
     [Parsed("select_order", NoString, rawMessage) EXCEPT !.index = 1]} \cup
    {Parsed(i, o, rawMessage) :
        i \in {"", "greeting", "cart", "track_order", "recent_orders",
               "openai_answer"},
        o \in {NoString, Ord123}}

\* completion.choices[0].message.content of the answering call
CompletionTexts == {"", "Happy to help.", "It costs $5."}

\* A query finds a document, finds none, or throws
DbOutcomes == {"hit", "miss", "error"}
\* Order.find(..).limit(..) returns this many orders
OrderCounts == {0, 2}

\* Order.find({ userId }).sort({ orderDate: -1 }).limit(10): the orders of a
\* caller are told apart by their orderDate
RecentLimit == 10
OrderDateSets == {{}, {5}, {3, 7}, 1..(RecentLimit + 2)}

RECURSIVE SortDesc(_)
SortDesc(dates) ==
    IF dates = {} THEN << >>
    ELSE LET latest == CHOOSE d \in dates : \A e \in dates : e <= d
         IN  <<latest>> \o SortDesc(dates \ {latest})

Limit(seq, n) == IF Len(seq) > n THEN SubSeq(seq, 1, n) ELSE seq

RecentOrdersOf(dates) == Limit(SortDesc(dates), RecentLimit)

-----------------------------------------------------------------------------
(* Reply texts *)

GreetingText ==
    "Hello! How can I help you with your MyAwesomeShop products, orders, or account today?"
CartLoginText ==
    "To view your cart please log in to your account on our website."
OrdersLoginText ==
    "To view your orders, please log in to your account on our website."
ProvideOrderIdText ==
    "Please provide your order ID (e.g., 'Order #12345ABC') or log in so I can show your recent orders to select from."
OrderNotFoundText == "I couldn't find an order with ID/tracking <orderIdCandidate>."
NoRecentOrdersText ==
    "I couldn't find any recent orders under your account."
NoOrdersText == "You don't seem to have any recent orders."
NoOrderAtPositionText == "I don't have an order at position <numericSelection>."
OrderListText == "I found the following recent orders. Which one would you like me to track?"
OrderStatusText == "Current order status: <status>."
CartEmptyText == "Your cart is empty."
CartSummaryText == "You have <n> item(s) in your cart:"
ReturnsText == "Our return policy allows returns within 30 days of purchase for a full refund."
ShippingText(copy) ==
    IF copy = PART001
    THEN "Standard shipping is free on orders over Rs 500."
    ELSE "Standard shipping is free on orders over $50."
PaymentsText == "We accept Visa, MasterCard, Amex, Discover, PayPal, and Google Pay."
NoFormatText == "I couldn't format your recent orders at the moment. Please check your account page."
RecentOrdersText == "Here are your recent orders:"
NoResponseText == "Sorry - I couldn't generate a response right now. Please try again or contact support."
NoSmartReplyText ==
    "Sorry - I couldn't generate a smart reply right now. Please try again or contact support@myawesomeshop.com."
ErrorText ==
    "An error occurred during chatbot response. Please try again later or contact support."

\* An exception on its way to the catch of replyChatBot
Thrown == "<thrown>"

\* safeReplyText: every $<number> of the text becomes a rupee amount; of the
\* texts above and the completions only one holds a dollar amount
safeReplyText(text) == IF text = "It costs $5." THEN "It costs Rs 5.00." ELSE text

-----------------------------------------------------------------------------
(* part_001 (replyChatBot with a classifier) and ChatBotController.js *)

notChatVars == <<orderVars, walkVars, cartVars, wishVars, reviewVars, restVars>>

\* The server is started with one of the two copies of the controller
ChatStart(copy) ==
    /\ chatVariant = NotStarted
    /\ chatVariant' = copy
    /\ UNCHANGED chat

\* res.status(code).json({ reply, intent, .. }); part_001 passes every reply
\* through safeReplyText.  An exception that reaches the outer catch is
\* answered 500.
Respond(c, reply, intent) ==
    IF reply = Thrown
    THEN [c EXCEPT !.pc = "done", !.code = 500, !.reply = ErrorText,
                   !.resIntent = ""]
    ELSE [c EXCEPT !.pc = "done", !.code = 200,
                   !.reply = IF chatVariant = PART001 THEN safeReplyText(reply)
                             ELSE reply,
                   !.resIntent = intent]

\* The catch block of analyzeMessageWithOpenAI: the local heuristic parser
LocalAnalysis(rawMessage) ==
    LET text == toLowerCase(rawMessage)
        idx == IF WholeNumber(rawMessage) # NoString
               THEN WholeNumber(rawMessage) ELSE RemoveIndex(rawMessage)
    IN  [source |-> "local",
         intent |-> IF IsGreeting(rawMessage) THEN "greeting"
                    ELSE IF includes(text, W_Cart) THEN "cart"
                    ELSE IF includes(text, W_Track) THEN "track_order"
                    ELSE "openai_answer",
         orderId |-> FirstIdRun(rawMessage),
         index |-> IF idx = NoString THEN 0 ELSE ParseDigits(idx),
         action |-> IF includes(text, Remove) THEN "remove"
                    ELSE IF includes(text, W_Checkout) THEN "checkout"
                    ELSE "",
         confidence |-> LocalConfidence,
         text |-> rawMessage]

\* analyzeMessageWithOpenAI: the parsed answer of the classifier, or the local
\* analysis when every call failed or the answer does not parse
analyzeMessageWithOpenAI(rawMessage, failures, answer) ==
    IF failures > Retries \/ answer = Garbage
    THEN LocalAnalysis(rawMessage)
    ELSE answer

\* The greeting test of both copies
GreetingRule(inputMessage) ==
    \/ inputMessage \in {W_Hello, W_Hi, W_Hey}
    \/ startsWith(inputMessage, W_Hello)
    \/ startsWith(inputMessage, W_Hi)

\* part_001: the intent of the analysis, or the keyword heuristics
IntentOf(analysis, inputMessage) ==
    IF analysis.intent # "" THEN analysis.intent
    ELSE IF includes(inputMessage, W_Cart) \/ inputMessage = W_Cart
            \/ includes(inputMessage, W_ShowCart) THEN "cart"
    ELSE IF includes(inputMessage, W_Track) THEN "track_order"
    ELSE IF includes(inputMessage, W_RecentOrders)
            \/ includes(inputMessage, W_MyOrder)
            \/ includes(inputMessage, W_RecentPurchases) THEN "recent_orders"
    ELSE IF GreetingRule(inputMessage) THEN "greeting"
    ELSE "openai_answer"

\* ChatBotController.js: the flow is chosen by the words of the message
RuleIntent(inputMessage) ==
    IF includes(inputMessage, W_MyCart) \/ inputMessage = W_Cart
       \/ includes(inputMessage, W_ShowCart) THEN "cart"
    ELSE IF includes(inputMessage, W_TrackOrder)
            \/ includes(inputMessage, W_TrackMyOrder)
            \/ inputMessage = W_Track
            \/ startsWith(inputMessage, W_TrackSp) THEN "track_order"
    ELSE IF includes(inputMessage, W_MyOrder)
            \/ includes(inputMessage, W_PurchaseHistory)
            \/ includes(inputMessage, W_RecentOrders)
            \/ includes(inputMessage, W_RecentPurchases) THEN "recent_orders"
    ELSE "openai_answer"

\* The flows after the intent is known, up to the first await of each
Dispatch(c) ==
    IF c.intent = "cart"
    THEN IF c.userId = "" THEN Respond(c, CartLoginText, c.intent)
         ELSE [c EXCEPT !.pc = "cart"]
    ELSE IF c.intent \in {"track_order", "select_order"}
            /\ (chatVariant = PART001 \/ c.intent = "track_order")
    THEN IF c.orderId # NoString THEN [c EXCEPT !.pc = "orderLookup"]
         ELSE IF c.userId = ""
         THEN Respond(c, ProvideOrderIdText, "track_order")
         ELSE [c EXCEPT !.pc = "userOrders"]
    ELSE IF c.intent = "recent_orders"
    THEN IF c.userId = "" THEN Respond(c, OrdersLoginText, c.intent)
         ELSE [c EXCEPT !.pc = "recentOrders"]
    ELSE [c EXCEPT !.pc = "answer"]

\* replyChatBot up to its first await (or its response, if none is needed)
replyChatBot(message, incomingUserId) ==
    LET rawMessage == trim(message)
        inputMessage == toLowerCase(rawMessage)
        c == [IdleChat EXCEPT !.message = message, !.userId = incomingUserId]
    IN  /\ chatVariant # NotStarted
        /\ chat.pc \in {"idle", "done"}
        /\ UNCHANGED chatVariant
        /\ chat' =
            IF rawMessage = NoString
            THEN [c EXCEPT !.pc = "done", !.code = 400,
                           !.reply = "Please provide a message"]
            ELSE IF includes(inputMessage, W_ReturnPolicy)
                    \/ includes(inputMessage, W_Returns)
            THEN Respond(c, ReturnsText, "returns")
            ELSE IF includes(inputMessage, W_Shipping)
            THEN Respond(c, ShippingText(chatVariant), "shipping")
            ELSE IF includes(inputMessage, W_Payment)
            THEN Respond(c, PaymentsText, "payments")
            ELSE IF chatVariant = PART001
            THEN [c EXCEPT !.pc = "classify"]
            ELSE IF GreetingRule(inputMessage)
            THEN Respond(c, GreetingText, "greeting")
            ELSE Dispatch([c EXCEPT !.intent = RuleIntent(inputMessage),
                                    !.orderId = OrderIdMatch(rawMessage),
                                    !.index =
                                        IF WholeNumber(rawMessage) = NoString
                                        THEN 0
                                        ELSE ParseDigits(WholeNumber(rawMessage))])

\* The calls openaiWithRetry makes when `failures' calls fail in a row
CallsMade(failures) == IF failures > Retries THEN Retries + 1 ELSE failures + 1

\* part_001, after await analyzeMessageWithOpenAI: the intent and the order
\* id and index the flows will use
Classified(failures, answer) ==
    LET rawMessage == trim(chat.message)
        analysis == analyzeMessageWithOpenAI(rawMessage, failures, answer)
        idx == WholeNumber(rawMessage)
    IN  /\ chat.pc = "classify"
        /\ answer \in ClassifierAnswers(rawMessage)
        /\ UNCHANGED chatVariant
        /\ chat' = Dispatch(
              [chat EXCEPT
                 !.analysis = analysis,
                 !.apiCalls = @ + CallsMade(failures),
                 !.apiOk = @ + (IF analysis.source = "local" THEN 0 ELSE 1),
                 !.intent = IntentOf(analysis, toLowerCase(rawMessage)),
                 !.orderId = IF analysis.orderId # NoString
                             THEN analysis.orderId
                             ELSE OrderIdMatch(rawMessage),
                 !.index = IF analysis.index # 0 THEN analysis.index
                           ELSE IF idx = NoString THEN 0
                           ELSE ParseDigits(idx)])

\* The cart flow: Cart.findOne, then User.findById when no cart was found;
\* the lines of a Cart document carry their title, so no product is looked up
CartFlow(cartFound, userFound, lines) ==
    LET calls == IF cartFound = "hit" THEN <<"Cart.findOne">>
                 ELSE <<"Cart.findOne", "User.findById">>
        n == IF cartFound = "hit" THEN lines ELSE 0
    IN  /\ chat.pc = "cart"
        /\ UNCHANGED chatVariant
        /\ chat' = Respond([chat EXCEPT !.dbCalls = @ \o calls],
                           IF n = 0 THEN CartEmptyText ELSE CartSummaryText,
                           chat.intent)

\* mongoose.Types.ObjectId.isValid of a string: 24 hex digits, or 12 bytes
IsValidObjectId(s) ==
    \/ Len(s) = 12
    \/ /\ Len(s) = 24
       /\ \A i \in 1..Len(s) :
             toLowerCase(s)[i] \in Range(Digits) \cup {"a", "b", "c", "d", "e", "f"}

\* The order lookup by the candidate id: by _id when it is a valid ObjectId,
\* then by orderNumber / trackingNumber / meta.shortId; a throwing query
\* leaves the order null
OrderLookup(byId, byNumber) ==
    LET valid == IsValidObjectId(chat.orderId)
        calls == IF valid /\ byId # "miss" THEN <<"Order.findById">>
                 ELSE IF valid THEN <<"Order.findById", "Order.findOne">>
                 ELSE <<"Order.findOne">>
        found == IF valid /\ byId # "miss" THEN byId = "hit"
                 ELSE byNumber = "hit"
    IN  /\ chat.pc = "orderLookup"
        /\ UNCHANGED chatVariant
        /\ chat' = Respond([chat EXCEPT !.dbCalls = @ \o calls],
                           IF found THEN OrderStatusText ELSE OrderNotFoundText,
                           "track_order")

\* The selection among the caller's recent orders
UserOrders(outcome, dates) ==
    LET userOrders == IF outcome = "hit" THEN RecentOrdersOf(dates) ELSE << >>
        n == Len(userOrders)
        idx == chat.index - 1
        c == [chat EXCEPT !.dbCalls = @ \o <<"Order.find">>, !.found = n]
    IN  /\ chat.pc = "userOrders"
        /\ UNCHANGED chatVariant
        /\ chat' = IF n = 0 THEN Respond(c, NoRecentOrdersText, "track_order")
                   ELSE IF chat.index # 0
                   THEN IF idx >= 0 /\ idx < n
                        THEN Respond([c EXCEPT !.picked = userOrders[idx + 1]],
                                     OrderStatusText, "track_order")
                        ELSE Respond(c, NoOrderAtPositionText, "track_order")
                   ELSE Respond(c, OrderListText, "select_order")

\* The recent orders flow up to the call that words the summary
RecentOrders(outcome, count) ==
    LET n == IF outcome = "hit" THEN count ELSE 0
        c == [chat EXCEPT !.dbCalls = @ \o <<"Order.find">>]
    IN  /\ chat.pc = "recentOrders"
        /\ UNCHANGED chatVariant
        /\ chat' = IF n = 0 THEN Respond(c, NoOrdersText, chat.intent)
                   ELSE [c EXCEPT !.pc = "format"]

\* Mutant: the error of the completion call is thrown on
CompletionOrFallback_Rethrow(failures, content, empty, fallback) ==
    IF failures > Retries THEN Thrown
    ELSE IF content = "" THEN empty
    ELSE content

\* try { completion = await openaiWithRetry(..); content?.trim() || <empty> }
\* catch { <fallback> }
CompletionOrFallback(failures, content, empty, fallback) ==
    IF failures > Retries THEN fallback
    ELSE IF content = "" THEN empty
    ELSE content

Completed(c, failures) ==
    [c EXCEPT !.apiCalls = @ + CallsMade(failures),
              !.apiOk = @ + (IF failures > Retries THEN 0 ELSE 1)]

FormatRecentOrders(failures, content) ==
    /\ chat.pc = "format"
    /\ UNCHANGED chatVariant
    /\ chat' = Respond(Completed(chat, failures),
                       CompletionOrFallback(failures, content, NoFormatText,
                                            RecentOrdersText),
                       chat.intent)

\* The last flow: the completion service words the answer.  part_001 keeps
\* the intent it has, ChatBotController.js sets openai_answer.
OpenAiAnswer(failures, content) ==
    /\ chat.pc = "answer"
    /\ UNCHANGED chatVariant
    /\ chat' = Respond(Completed(chat, failures),
                       CompletionOrFallback(failures, content, NoResponseText,
                                            NoSmartReplyText),
                       IF chatVariant = PART001 THEN chat.intent
                       ELSE "openai_answer")

NextChat ==
    \/ \E copy \in ChatVariants : ChatStart(copy) /\ UNCHANGED notChatVars
    \/ \E m \in Messages, u \in ChatUserIds :
          replyChatBot(m, u) /\ UNCHANGED notChatVars
    \/ \E f \in FailureInputs, a \in ClassifierAnswers(trim(chat.message)) :
          Classified(f, a) /\ UNCHANGED notChatVars
    \/ \E cartFound, userFound \in DbOutcomes, lines \in OrderCounts :
          CartFlow(cartFound, userFound, lines) /\ UNCHANGED notChatVars
    \/ \E byId, byNumber \in DbOutcomes :
          OrderLookup(byId, byNumber) /\ UNCHANGED notChatVars
    \/ \E outcome \in DbOutcomes, dates \in OrderDateSets :
          UserOrders(outcome, dates) /\ UNCHANGED notChatVars
    \/ \E outcome \in DbOutcomes, n \in OrderCounts :
          RecentOrders(outcome, n) /\ UNCHANGED notChatVars
    \/ \E f \in FailureInputs, t \in CompletionTexts :
          FormatRecentOrders(f, t) /\ UNCHANGED notChatVars
    \/ \E f \in FailureInputs, t \in CompletionTexts :
          OpenAiAnswer(f, t) /\ UNCHANGED notChatVars

SpecChat == Init /\ [][NextChat]_vars

-----------------------------------------------------------------------------
(* Properties of the chat router *)

\* C18: the chat router never fails outright because the classifier is
\* unavailable: for every non-empty message and any caller, when every call
\* of the external service failed or returned unparseable output, the
\* response is a success with a reply, never the 500 error response, and the
\* analysis is the local one: the same fields, at a lower confidence.
C18_NeverFailsWithoutClassifier ==
    (chat.pc = "done" /\ trim(chat.message) # NoString /\ chat.apiOk = 0) =>
        /\ chat.code = 200
        /\ chat.reply \notin {"", ErrorText}
        /\ chat.analysis.source # "none" =>
              /\ chat.analysis.source = "local"
              /\ chat.analysis.intent \in ClassifierIntents
              /\ chat.analysis.text = trim(chat.message)
              /\ chat.analysis.confidence = LocalConfidence
              /\ chat.analysis.confidence < ClassifierConfidence

\* C18 witness: the classifier and the answering call both failed on every
\* attempt, and the request was still answered 200 with the apology.
C18_Witness ==
    /\ chatVariant = PART001
    /\ chat.pc = "done"
    /\ chat.apiCalls = 2 * (Retries + 1)
    /\ chat.apiOk = 0
    /\ chat.analysis.source = "local"
    /\ chat.code = 200
    /\ chat.reply = NoSmartReplyText

\* C19: for the message "hi" replyChatBot always returns the fixed greeting
\* text with intent greeting, whether the classifier succeeds, fails or
\* returns any intent, and whoever the caller is.
C19_HiAlwaysGreeting ==
    (chat.pc = "done" /\ trim(chat.message) = MsgHi) =>
        /\ chat.code = 200
        /\ chat.reply = GreetingText
        /\ chat.resIntent = "greeting"

\* C20: for the message "my cart" without a caller identity replyChatBot
\* returns the login prompt and makes no database call, whatever the
\* classifier returns and whether it is reachable.
C20_MyCartAnonymousNoDatabase ==
    (trim(chat.message) = MsgMyCart /\ chat.userId = "") =>
        /\ chat.dbCalls = << >>
        /\ chat.pc = "done" => (chat.code = 200 /\ chat.reply = CartLoginText)

\* The order id or tracking token the request carries: the one the classifier
\* extracted, or the token that follows an order keyword in the message
C21_ExplicitId(c) ==
    \/ c.analysis.source = "classifier" /\ c.analysis.orderId # NoString
    \/ OrderIdMatch(trim(c.message)) # NoString

\* The index the request carries (0 = none): the one the classifier
\* extracted, or the message when it is a number of one or two digits
C21_IndexGiven(c) ==
    IF c.analysis.source = "classifier" /\ c.analysis.index # 0
    THEN c.analysis.index
    ELSE IF WholeNumber(trim(c.message)) # NoString
    THEN ParseDigits(WholeNumber(trim(c.message)))
    ELSE 0

C21_Resolved(c) ==
    (/\ c.pc = "done"
     /\ c.intent \in {"track_order", "select_order"}
     /\ c.resIntent \in {"track_order", "select_order"}) =>
        LET k == C21_IndexGiven(c)
            n == c.found
        IN  /\ C21_ExplicitId(c) =>
                 /\ c.reply \in {OrderStatusText, OrderNotFoundText}
                 /\ c.dbCalls # << >>
                 /\ \A i \in 1..Len(c.dbCalls) :
                       c.dbCalls[i] \in {"Order.findById", "Order.findOne"}
            /\ (~C21_ExplicitId(c) /\ c.userId # "") =>
                 /\ c.dbCalls = <<"Order.find">>
                 /\ (n > 0 /\ k # 0) =>
                       IF 1 <= k /\ k <= n
                       THEN c.reply = OrderStatusText /\ c.picked # 0
                       ELSE c.reply = NoOrderAtPositionText /\ c.picked = 0
                 /\ (n > 0 /\ k = 0) =>
                       /\ c.reply = OrderListText
                       /\ c.resIntent = "select_order"
                       /\ c.picked = 0

\* C21: for intent track_order or select_order the router resolves in this
\* order: an order id or tracking token of the request is looked up and the
\* reply is that order's status or a not-found message; otherwise, for a known
\* caller with recent orders (the at most 10 latest by order date) and an
\* index k, the reply is the status of the k-th of them when 1 <= k <= n and
\* an out-of-range message otherwise; otherwise the reply is the numbered
\* list of those orders with intent select_order.
C21_TrackResolution ==
    [][/\ C21_Resolved(chat')
       /\ \A dates \in OrderDateSets :
             UserOrders("hit", dates) =>
                /\ chat'.found <= RecentLimit
                /\ chat'.found <= Cardinality(dates)
                /\ chat'.found = RecentLimit \/ chat'.found = Cardinality(dates)
                /\ chat'.picked # 0 =>
                      /\ chat'.picked \in dates
                      /\ Cardinality({d \in dates : d >= chat'.picked})
                            = C21_IndexGiven(chat')]_vars

-----------------------------------------------------------------------------
(* openaiWithRetry, statement by statement *)

\* The requests the controllers hand to openaiWithRetry
Payloads == {"classify", "summarize orders", "answer"}
\* What openai.chat.completions.create throws when it fails
ApiErrors == {"timeout", "rate limit", "server error", "connection"}
RetryDelayMs == 300

notRetryVars ==
    <<orderVars, walkVars, cartVars, wishVars, reviewVars, chatVars,
      norm, addr, race, pw>>

\* openaiWithRetry(payload, retries): let lastErr; i = 0
openaiWithRetry(payload, retries) ==
    /\ retry.pc \in {"idle", "returned", "thrown"}
    /\ retry' = [IdleRetry EXCEPT !.pc = "loop", !.payload = payload,
                                  !.retries = retries]

\* Mutant: the loop makes one attempt more
LoopCondition_OneMore(i, retries) == i <= retries + 1

\* for (..; i <= retries; ..)
LoopCondition(i, retries) == i <= retries

\* try { return await openai.chat.completions.create(payload) }
\* catch (err) { lastErr = err; if (i < retries) <wait> }
Create(ok, content, err) ==
    /\ retry.pc = "loop"
    /\ LoopCondition(retry.i, retry.retries)
    /\ retry' =
         IF ok
         THEN [retry EXCEPT !.pc = "returned", !.calls = @ + 1,
                            !.result = content]
         ELSE IF retry.i < retry.retries
         THEN [retry EXCEPT !.pc = "delay", !.calls = @ + 1,
                            !.errs = Append(@, err)]
         ELSE [retry EXCEPT !.i = @ + 1, !.calls = @ + 1,
                            !.errs = Append(@, err)]

\* await new Promise(r => setTimeout(r, 300 * (i + 1))); i++
RetryDelay ==
    /\ retry.pc = "delay"
    /\ retry' = [retry EXCEPT !.pc = "loop", !.i = @ + 1,
                              !.waited = @ + RetryDelayMs * (retry.i + 1)]

\* throw lastErr
ThrowLastErr ==
    /\ retry.pc = "loop"
    /\ ~LoopCondition(retry.i, retry.retries)
    /\ retry' = [retry EXCEPT !.pc = "thrown",
                              !.thrown = retry.errs[Len(retry.errs)]]

RetryStep ==
    \/ \E ok \in BOOLEAN, content \in CompletionTexts, err \in ApiErrors :
          Create(ok, content, err)
    \/ RetryDelay
    \/ ThrowLastErr

NextRetry ==
    \/ \E payload \in Payloads :
          openaiWithRetry(payload, Retries) /\ UNCHANGED notRetryVars
    \/ \E ok \in BOOLEAN, content \in CompletionTexts, err \in ApiErrors :
          Create(ok, content, err) /\ UNCHANGED notRetryVars
    \/ RetryDelay /\ UNCHANGED notRetryVars
    \/ ThrowLastErr /\ UNCHANGED notRetryVars

\* A call of the service returns or throws (the client library times out),
\* and the timer of the delay fires
SpecRetry ==
    Init /\ [][NextRetry]_vars /\ WF_vars(RetryStep /\ UNCHANGED notRetryVars)

-----------------------------------------------------------------------------
(* Properties of openaiWithRetry *)

C22_Bounded ==
    /\ retry.calls <= 2
    /\ retry.pc \in {"loop", "delay"} => retry.calls = Len(retry.errs)
    /\ retry.pc = "returned" =>
          /\ retry.calls = Len(retry.errs) + 1
          /\ retry.result \in CompletionTexts
          /\ retry.thrown = ""
    /\ retry.pc = "thrown" =>
          /\ retry.calls = 2
          /\ Len(retry.errs) = 2
          /\ retry.thrown = retry.errs[2]
          /\ retry.result = ""
    /\ retry.waited <= RetryDelayMs

\* C22: every call of the external service goes through one bounded retry:
\* openaiWithRetry makes at most two attempts, returns the first successful
\* result without a further attempt, raises the last error after the second
\* failure, and always terminates.
C22_SingleBoundedRetry ==
    /\ []C22_Bounded
    /\ (retry.pc \in {"loop", "delay"}) ~> (retry.pc \in {"returned", "thrown"})

\* C22 witness: the first attempt failed, the second failed with another
\* error after the delay, and that second error was thrown.
C22_Witness ==
    /\ retry.pc = "thrown"
    /\ retry.calls = 2
    /\ retry.errs = <<"timeout", "rate limit">>
    /\ retry.thrown = "rate limit"
    /\ retry.waited = RetryDelayMs

-----------------------------------------------------------------------------
(* Cart normalization of the chatbot: the per-item normalizer of the cart    *)
(* flow and localCartReply (the same text in both copies)                    *)

\* Property values.  Strings are TLA+ strings, with two more values for a
\* property that is undefined or null; numbers are tagged JavaScript values.
Undef == "<undefined>"
NullS == "<null>"
Undefined == [t |-> "undefined", v |-> 0]

\* a || b on string-valued properties: undefined, null and "" are falsy
OrS(a, b) == IF a \in {Undef, NullS, ""} THEN b ELSE a
\* a ?? b
Nullish(x) == x.t \in {"undefined", "null"}
Coalesce(a, b) == IF Nullish(a) THEN b ELSE a

\* ci.product: absent, a populated product document, or a bare reference
NoProduct ==
    [k |-> "undefined", _id |-> Undef, id |-> Undef, title |-> Undef,
     name |-> Undef, price |-> Undefined]
ProductDoc(id, title, price) ==
    [NoProduct EXCEPT !.k = "object", !._id = id, !.title = title,
                      !.price = price]

\* An object with none of the properties the normalization reads
NoFields ==
    [productId |-> Undef, product |-> NoProduct, _id |-> Undef,
     product_id |-> Undef, id |-> Undef, title |-> Undef,
     price |-> Undefined, qty |-> Undefined, quantity |-> Undefined,
     lineTotal |-> Undefined]

\* Raw cart items: a line of cartSchema; a bare product id (a string item
\* becomes { productId, qty: 1 }); a line without any product reference and
\* with its price as text; a line with a populated product; and two items
\* already in the form the normalizer returns
SchemaLine ==
    [NoFields EXCEPT !.productId = "p1", !._id = "line1", !.title = "Pen",
                     !.price = Num(10), !.quantity = Num(2)]
BareId == [NoFields EXCEPT !.productId = "p2", !.qty = Num(1)]
NoReference == [NoFields EXCEPT !.price = Str(9), !.quantity = Num(3)]
Populated ==
    [NoFields EXCEPT !.product = ProductDoc("p1", "Pen", Num(10)),
                     !.quantity = Num(1)]
CanonicalPen ==
    [NoFields EXCEPT !.productId = "p1", !.title = "Pen", !.price = Num(10),
                     !.qty = Num(2)]
CanonicalUnknown ==
    [NoFields EXCEPT !.productId = NullS, !.title = "Unknown product",
                     !.price = Null, !.qty = Num(1)]
RawItems ==
    {SchemaLine, BareId, NoReference, Populated, CanonicalPen, CanonicalUnknown}

MaxItems == 2
RawCarts == UNION {[1..n -> RawItems] : n \in 0..MaxItems}

\* Product.findById / Product.findOne for one item: throws, finds nothing,
\* or finds a product document
LookupThrows == [NoProduct EXCEPT !.k = "error"]
NotFound == [NoProduct EXCEPT !.k = "null"]
LookupResults ==
    {LookupThrows, NotFound, ProductDoc("p2", "Ink", Num(7)),
     ProductDoc("p2", Undef, Undefined)}

\* The fallback of the normalizer when no product was found
KeepSupplied_DropId(ci, pidStr) ==
    [NoFields EXCEPT !.productId = NullS,
                     !.title = OrS(ci.title, "Unknown product"),
                     !.price = Coalesce(ci.price, Null),
                     !.qty = Coalesce(ci.qty, Coalesce(ci.quantity, Num(1)))]

\* return { productId: pidStr, title: ci.title || 'Unknown product',
\*          price: ci.price ?? null, qty: ci.qty ?? ci.quantity ?? 1 }
KeepSupplied(ci, pidStr) ==
    [NoFields EXCEPT !.productId = pidStr,
                     !.title = OrS(ci.title, "Unknown product"),
                     !.price = Coalesce(ci.price, Null),
                     !.qty = Coalesce(ci.qty, Coalesce(ci.quantity, Num(1)))]

\* The per-item normalizer of the cart flow: cartItemsRaw.map(async (ci) => ..)
NormalizeItem(ci, found) ==
    LET qty == Coalesce(ci.qty, Coalesce(ci.quantity, Num(1)))
        pid == OrS(ci.productId, OrS(ci._id, ci.product_id))
    IN  IF OrS(ci.title, Undef) # Undef \/ ci.product.k # "undefined"
        THEN [NoFields EXCEPT
                !.productId =
                    OrS(ci.productId,
                        OrS(OrS(ci.product._id, ci.product.id), NullS)),
                !.title =
                    OrS(ci.title,
                        OrS(OrS(ci.product.title, ci.product.name),
                            "Unknown product")),
                !.price = IF ci.price.t = "number" THEN ci.price
                          ELSE IF ci.product.price.t = "number"
                          THEN ci.product.price
                          ELSE Null,
                !.qty = qty]
        ELSE IF OrS(pid, Undef) = Undef
        THEN [NoFields EXCEPT !.productId = NullS,
                              !.title = OrS(ci.title, "Unknown product"),
                              !.price = Coalesce(ci.price, Null),
                              !.qty = qty]
        ELSE IF found \in {LookupThrows, NotFound}
        THEN KeepSupplied(ci, pid)
        ELSE [NoFields EXCEPT
                !.productId = found._id,
                !.title = OrS(OrS(found.title, found.name), "Unnamed product"),
                !.price = IF found.price.t = "number" THEN found.price
                          ELSE Null,
                !.qty = qty]

\* One entry of the cart of localCartReply
CartEntry(it) ==
    LET productId ==
            OrS(it.productId,
                OrS(OrS(it.product._id, it.product.id), OrS(it._id, NullS)))
        price == IF it.price.t = "number" THEN it.price
                 ELSE IF it.product.price.t = "number" THEN it.product.price
                 ELSE Null
        qty == Coalesce(it.qty, Coalesce(it.quantity, Num(1)))
    IN  [NoFields EXCEPT
           !.id = productId,
           !.title = OrS(it.title,
                         OrS(OrS(it.product.title, it.product.name),
                             "Unknown product")),
           !.price = price,
           !.qty = qty,
           !.lineTotal = IF price.t = "number" THEN Num(price.v * qty.v)
                         ELSE Null]

RECURSIVE SumLines(_)
SumLines(cart) ==
    IF cart = << >> THEN 0
    ELSE (IF Head(cart).lineTotal.t = "number" THEN Head(cart).lineTotal.v
          ELSE 0) + SumLines(Tail(cart))

\* localCartReply(cartItems): the cart and the subtotal of the reply
localCartReply(cartItems) ==
    LET cart == [i \in 1..Len(cartItems) |-> CartEntry(cartItems[i])]
    IN  [cart |-> cart, subtotal |-> SumLines(cart)]

notNormVars ==
    <<orderVars, walkVars, cartVars, wishVars, reviewVars, chatVars,
      retry, addr, race, pw>>

\* The cart flow has read the raw items of the caller's cart
ReadCart(cartItemsRaw) ==
    /\ norm.pc \in {"idle", "done"}
    /\ norm' = [NoItems EXCEPT !.pc = "normalize", !.raw = cartItemsRaw]

\* normalizedCart = await Promise.all(cartItemsRaw.map(..)), then
\* localCartReply(normalizedCart)
NormalizeCart(found) ==
    LET normalizedCart ==
            [i \in 1..Len(norm.raw) |-> NormalizeItem(norm.raw[i], found[i])]
        out == localCartReply(normalizedCart)
    IN  /\ norm.pc = "normalize"
        /\ norm' = [norm EXCEPT !.pc = "replied",
                                !.normalizedCart = normalizedCart,
                                !.cart = out.cart,
                                !.subtotal = out.subtotal]

\* The same normalization applied to the cart it returned
NormalizeAgain(found) ==
    LET normalizedCart ==
            [i \in 1..Len(norm.cart) |-> NormalizeItem(norm.cart[i], found[i])]
        out == localCartReply(normalizedCart)
    IN  /\ norm.pc = "replied"
        /\ norm' = [norm EXCEPT !.pc = "done",
                                !.normalizedAgain = normalizedCart,
                                !.cartAgain = out.cart,
                                !.subtotalAgain = out.subtotal]

NextNorm ==
    \/ \E cartItemsRaw \in RawCarts :
          ReadCart(cartItemsRaw) /\ UNCHANGED notNormVars
    \/ \E found \in [1..Len(norm.raw) -> LookupResults] :
          NormalizeCart(found) /\ UNCHANGED notNormVars
    \/ \E found \in [1..Len(norm.cart) -> LookupResults] :
          NormalizeAgain(found) /\ UNCHANGED notNormVars

SpecNorm == Init /\ [][NextNorm]_vars

-----------------------------------------------------------------------------
(* Properties of the cart normalization *)

\* An item in the form the normalizer returns: productId, title, price and
\* qty only, the price a number or null
C23_Canonical(it) ==
    /\ it.productId # Undef /\ it.productId # ""
    /\ it.title \notin {Undef, NullS, ""}
    /\ it.price.t \in {"number", "null"}
    /\ it.qty.t = "number"
    /\ it = [NoFields EXCEPT !.productId = it.productId, !.title = it.title,
                             !.price = it.price, !.qty = it.qty]

\* C23: cart normalization is idempotent: the normalization (the per-item
\* normalizer followed by localCartReply) applied to already-canonical items
\* and then to its own output yields the same items (product id, title,
\* price, quantity, line subtotal) and the same cart subtotal.
C23_NormalizationIdempotent ==
    (/\ norm.pc = "done"
     /\ \A i \in 1..Len(norm.raw) : C23_Canonical(norm.raw[i])) =>
        /\ Len(norm.cartAgain) = Len(norm.cart)
        /\ \A i \in 1..Len(norm.cart) :
              /\ norm.cartAgain[i].id = norm.cart[i].id
              /\ norm.cartAgain[i].title = norm.cart[i].title
              /\ norm.cartAgain[i].price = norm.cart[i].price
              /\ norm.cartAgain[i].qty = norm.cart[i].qty
              /\ norm.cartAgain[i].lineTotal = norm.cart[i].lineTotal
        /\ norm.subtotalAgain = norm.subtotal

\* C24: cart normalization never discards an item: the normalized cart has
\* exactly one entry per raw cart item, in the same order, also when the
\* product lookup fails, finds nothing or the item has no product reference;
\* in those cases the entry keeps the supplied product id, title, price and
\* quantity (a title or quantity that was not supplied gets its default).
C24_NoItemDiscarded ==
    [][\A found \in [1..Len(norm.raw) -> LookupResults] :
          NormalizeCart(found) =>
             /\ Len(norm'.normalizedCart) = Len(norm.raw)
             /\ Len(norm'.cart) = Len(norm.raw)
             /\ \A i \in 1..Len(norm.raw) :
                   LET ci == norm.raw[i]
                       out == norm'.normalizedCart[i]
                       pid == OrS(ci.productId, OrS(ci._id, ci.product_id))
                       noInfo == OrS(ci.title, Undef) = Undef
                                 /\ ci.product.k = "undefined"
                   IN  (noInfo /\ (\/ OrS(pid, Undef) = Undef
                                   \/ found[i] \in {LookupThrows, NotFound})) =>
                          /\ out.productId = OrS(pid, NullS)
                          /\ out.title = "Unknown product"
                          /\ out.price = (IF Nullish(ci.price) THEN Null
                                          ELSE ci.price)
                          /\ out.qty = (IF ~Nullish(ci.qty) THEN ci.qty
                                        ELSE IF ~Nullish(ci.quantity)
                                        THEN ci.quantity
                                        ELSE Num(1))]_vars

\* C24 witness: a cart of two items was normalized, the lookup of the bare
\* product id threw and the other item had no product reference; both are
\* in the normalized cart, in their order, with what they supplied.
C24_Witness ==
    /\ norm.pc = "replied"
    /\ norm.raw = <<BareId, NoReference>>
    /\ Len(norm.normalizedCart) = 2
    /\ norm.normalizedCart[1].productId = "p2"
    /\ norm.normalizedCart[1].title = "Unknown product"
    /\ norm.normalizedCart[2].productId = NullS
    /\ norm.normalizedCart[2].price = Str(9)
    /\ norm.normalizedCart[2].qty = Num(3)

-----------------------------------------------------------------------------
(* redactAddress and the order replies that show a delivery location (the   *)
(* same text in both copies)                                                *)

\* order.shippingAddress: strings over a small alphabet, and values that are
\* not strings
MaxAddr == 5
AddressChars == {"a", "b", ",", " "}
AddressStrings == UNION {[1..n -> AddressChars] : n \in 0..MaxAddr}
ShippingAddresses ==
    {[t |-> "string", s |-> a] : a \in AddressStrings}
    \cup {[t |-> k, s |-> << >>] : k \in {"undefined", "null", "object"}}

RedactedText == <<"R", "e", "d", "a", "c", "t", "e", "d">>
RedactedSuffix ==
    <<" ", "(", "f", "u", "l", "l", " ", "a", "d", "d", "r", "e", "s", "s",
      " ", "r", "e", "d", "a", "c", "t", "e", "d", ")">>

\* addr.split(',')
RECURSIVE Split(_)
Split(s) ==
    IF \A i \in 1..Len(s) : s[i] # "," THEN <<s>>
    ELSE LET c == CHOOSE i \in 1..Len(s) :
                     s[i] = "," /\ \A j \in 1..(i - 1) : s[j] # ","
         IN  <<SubSeq(s, 1, c - 1)>> \o Split(SubSeq(s, c + 1, Len(s)))

\* .map(p => p.trim()).filter(Boolean)
RECURSIVE TrimmedParts(_)
TrimmedParts(parts) ==
    IF parts = << >> THEN << >>
    ELSE (IF trim(Head(parts)) = << >> THEN << >> ELSE <<trim(Head(parts))>>)
         \o TrimmedParts(Tail(parts))

\* Mutant: the first two parts are shown
Slice_FirstTwo(parts) ==
    IF Len(parts) > 2 THEN SubSeq(parts, 1, 2) ELSE parts

\* parts.slice(-2)
Slice(parts) ==
    IF Len(parts) > 2 THEN SubSeq(parts, Len(parts) - 1, Len(parts)) ELSE parts

\* .join(', ')
RECURSIVE Join(_)
Join(parts) ==
    IF parts = << >> THEN << >>
    ELSE IF Len(parts) = 1 THEN Head(parts)
    ELSE Head(parts) \o <<",", " ">> \o Join(Tail(parts))

redactAddress(address) ==
    LET parts == TrimmedParts(Split(address.s))
    IN  IF address.t # "string" \/ address.s = << >> THEN RedactedText
        ELSE IF Len(parts) = 0 THEN RedactedText
        ELSE Join(Slice(parts)) \o RedactedSuffix

notAddrVars ==
    <<orderVars, walkVars, cartVars, wishVars, reviewVars, chatVars,
      retry, norm, race, pw>>

\* An order was found for the reply
OrderFound(shippingAddress) ==
    /\ addr.pc = "idle"
    /\ addr' = [NoAddress EXCEPT !.pc = "reply",
                                 !.shippingAddress = shippingAddress]

\* localOrderStatusReply / buildOrderContext:
\* const shipping = redactAddress(order.shippingAddress)
localOrderStatusReply ==
    /\ addr.pc = "reply"
    /\ addr' = [addr EXCEPT !.pc = "done",
                            !.shipping = redactAddress(addr.shippingAddress)]

\* The response was sent
ReplySent ==
    /\ addr.pc = "done"
    /\ addr' = NoAddress

NextAddr ==
    \/ \E a \in ShippingAddresses : OrderFound(a) /\ UNCHANGED notAddrVars
    \/ localOrderStatusReply /\ UNCHANGED notAddrVars
    \/ ReplySent /\ UNCHANGED notAddrVars

SpecAddr == Init /\ [][NextAddr]_vars

-----------------------------------------------------------------------------
(* Properties of the address redaction *)

\* The non-empty segments of a text, by the positions of its commas: the
\* k-th segment lies between the (k-1)-th and the k-th comma
C25_Commas(s) == {i \in 1..Len(s) : s[i] = ","}
C25_Bounds(s) == {0, Len(s) + 1} \cup C25_Commas(s)
C25_Segments(s) ==
    {<<a, trim(SubSeq(s, a + 1, b - 1))>> :
        <<a, b>> \in {p \in C25_Bounds(s) \X C25_Bounds(s) :
                        /\ p[1] < p[2]
                        /\ \A c \in C25_Commas(s) : ~(p[1] < c /\ c < p[2])
                        /\ trim(SubSeq(s, p[1] + 1, p[2] - 1)) # << >>}}
\* The segments that have at most one non-empty segment after them
C25_LastTwo(s) ==
    {seg \in C25_Segments(s) :
        Cardinality({later \in C25_Segments(s) : later[1] > seg[1]}) <= 1}
\* The text of the segments of a set, in their order
C25_Texts(segs) ==
    LET starts == {seg[1] : seg \in segs}
        Before(a) == Cardinality({b \in starts : b < a})
    IN  [k \in 1..Cardinality(segs) |->
            (CHOOSE seg \in segs : Before(seg[1]) = k - 1)[2]]

\* C25: a reply that includes an order's delivery address shows only the last
\* two comma-separated segments: the text of redactAddress consists of the
\* last two non-empty segments of the address and of no other segment, and
\* it is the placeholder "Redacted" when the address is empty or not a
\* string.
C25_OnlyLastTwoSegments ==
    addr.pc = "done" =>
        LET a == addr.shippingAddress
            n == Len(addr.shipping) - Len(RedactedSuffix)
            shown == SubSeq(addr.shipping, 1, n)
        IN  IF a.t # "string" \/ a.s = << >> \/ C25_Segments(a.s) = {}
            THEN addr.shipping = RedactedText
            ELSE /\ n > 0
                 /\ SubSeq(addr.shipping, n + 1, Len(addr.shipping))
                       = RedactedSuffix
                 /\ C25_Texts(C25_Segments(shown)) = C25_Texts(C25_LastTwo(a.s))
                 /\ Cardinality(C25_Segments(shown)) <= 2
                 /\ \A seg \in C25_Segments(a.s) \ C25_LastTwo(a.s) :
                       (\A l \in C25_LastTwo(a.s) : l[2] # seg[2]) =>
                          \A sh \in C25_Segments(shown) : sh[2] # seg[2]

\* C25 witness: an address of three segments was redacted and the reply
\* shows the last two, without the first.
C25_Witness ==
    /\ addr.pc = "done"
    /\ addr.shippingAddress.s = <<"a", ",", "b", ",", "b">>
    /\ addr.shipping = <<"b", ",", " ", "b">> \o RedactedSuffix

-----------------------------------------------------------------------------
(* Concurrent requests on one order.  A handler runs from one await to the   *)
(* next without interruption: Order.findById, the code up to order.save(),  *)
(* the save, and (part_002) the notification before the response.           *)

MaxCalls == 2
Callers == 1..MaxCalls

\* One call: its handler, its position, its inputs, the document it loaded
\* with the version and the total it had, the paths it modified, the subtotal
\* of the item it removed, its response
IdleCall ==
    [op |-> "", pc |-> "idle", productId |-> "", userOtp |-> Null,
     order |-> NewOrder("", << >>, 0, NoStatus), version |-> 0,
     modified |-> {}, removed |-> 0, code |-> 0]

RaceOtp == generateOtp(0)
WrongOtp == generateOtp(RandDen - 1)

notRaceVars ==
    <<orderVars, walkVars, cartVars, wishVars, reviewVars, chatVars,
      retry, norm, addr, pw>>

\* An order of two items was created and shipped: its OTP is stored
OrderShipped(items) ==
    /\ race.pc = "idle"
    /\ race' = [NoRace EXCEPT
                  !.pc = "run",
                  !.stored = ShipOrder(NewOrder("u1", items, SumItems(items),
                                                NoStatus),
                                       RaceOtp, now, variant),
                  !.initial = SumItems(items),
                  !.calls = [p \in Callers |-> IdleCall]]

\* A request arrives: cancelOrderItem or verifyDeliveryOtp on the order
Arrive(p, op, productId, userOtp) ==
    /\ race.pc = "run"
    /\ race.calls[p].pc = "idle"
    /\ race' = [race EXCEPT
                  !.calls[p] = [IdleCall EXCEPT !.op = op, !.pc = "find",
                                                !.productId = productId,
                                                !.userOtp = userOtp]]

\* await Order.findById(id), then the handler up to await order.save()
FindAndModify(p) ==
    LET c == race.calls[p]
        o == race.stored
        idx == FindIndex(o.items, c.productId)
        loaded == [c EXCEPT !.order = o, !.version = race.version]
    IN  /\ race.pc = "run"
        /\ c.pc = "find"
        /\ race' = [race EXCEPT !.calls[p] =
              IF c.op = "cancelOrderItem"
              THEN IF idx = 0
                   THEN [loaded EXCEPT !.pc = "done", !.code = 404]
                   ELSE [loaded EXCEPT
                           !.pc = "save",
                           !.order = CancelItem(o, idx),
                           !.removed = o.items[idx].price * o.items[idx].quantity,
                           !.modified =
                               {"totalAmount", "items"} \cup
                               (IF Len(o.items) = 1 THEN {"status"} ELSE {})]
              ELSE IF VerifyError(o, c.userOtp, now) # "none"
                   THEN [loaded EXCEPT !.pc = "done", !.code = 400]
                   ELSE [loaded EXCEPT
                           !.pc = "save",
                           !.order = Deliver(o),
                           !.modified = {"status", "otpVerified",
                                         "deliveryOtp", "otpExpiresAt"}]]

\* Mutant: the total is decremented in the store ($inc) instead of set
SavedTotal_Decrement(storedTotal, c) == storedTotal - c.removed

\* order.save() sets every modified path to the value of the document
SavedTotal(storedTotal, c) == c.order.totalAmount

Written(o, c) ==
    [o EXCEPT
       !.totalAmount = IF "totalAmount" \in c.modified
                       THEN SavedTotal(@, c) ELSE @,
       !.items = IF "items" \in c.modified THEN c.order.items ELSE @,
       !.status = IF "status" \in c.modified THEN c.order.status ELSE @,
       !.otpVerified = IF "otpVerified" \in c.modified
                       THEN c.order.otpVerified ELSE @,
       !.deliveryOtp = IF "deliveryOtp" \in c.modified
                       THEN c.order.deliveryOtp ELSE @,
       !.otpExpiresAt = IF "otpExpiresAt" \in c.modified
                        THEN c.order.otpExpiresAt ELSE @]

\* await order.save().  The schema keeps the version key: when the items
\* array was replaced and the stored version is no longer the loaded one, the
\* save either writes all the same or is refused (VersionError, answered 500
\* by the catch of the handler), depending on the version of the library.
Save(p, refused) ==
    LET c == race.calls[p]
        stale == "items" \in c.modified /\ race.version # c.version
    IN  /\ race.pc = "run"
        /\ c.pc = "save"
        /\ refused => stale
        /\ race' =
             IF refused
             THEN [race EXCEPT !.calls[p].pc = "done", !.calls[p].code = 500]
             ELSE [race EXCEPT
                     !.stored = Written(@, c),
                     !.version = IF "items" \in c.modified THEN @ + 1 ELSE @,
                     !.calls[p].pc = "respond"]

\* part_002 notifies the user (verifyDeliveryOtp: the delivery mail; a
\* failure is logged only); then res.status(200)
Respond200(p) ==
    LET c == race.calls[p]
    IN  /\ race.pc = "run"
        /\ c.pc = "respond"
        /\ race' = [race EXCEPT
                      !.delivered = IF variant = PART002
                                       /\ c.op = "verifyDeliveryOtp"
                                    THEN @ + 1 ELSE @,
                      !.calls[p].pc = "done",
                      !.calls[p].code = 200]

NextRace ==
    \/ \E items \in ItemLists \ {<< >>} :
          OrderShipped(items) /\ UNCHANGED notRaceVars
    \/ \E p \in Callers, productId \in Products :
          Arrive(p, "cancelOrderItem", productId, Null)
          /\ UNCHANGED notRaceVars
    \/ \E p \in Callers, userOtp \in {RaceOtp, WrongOtp} :
          Arrive(p, "verifyDeliveryOtp", "", userOtp) /\ UNCHANGED notRaceVars
    \/ \E p \in Callers : FindAndModify(p) /\ UNCHANGED notRaceVars
    \/ \E p \in Callers, refused \in BOOLEAN :
          Save(p, refused) /\ UNCHANGED notRaceVars
    \/ \E p \in Callers : Respond200(p) /\ UNCHANGED notRaceVars

SpecRace == Init /\ [][NextRace]_vars

-----------------------------------------------------------------------------
(* Properties of concurrent requests on one order *)

\* Two cancelOrderItem calls, both answered 200
C26_BothCancelled ==
    /\ race.pc = "run"
    /\ \A p \in {1, 2} :
          /\ race.calls[p].op = "cancelOrderItem"
          /\ race.calls[p].pc = "done"
          /\ race.calls[p].code = 200
          /\ race.calls[p].removed > 0

C29_Successes ==
    IF race.pc = "run"
    THEN {p \in Callers : /\ race.calls[p].op = "verifyDeliveryOtp"
                          /\ race.calls[p].pc = "done"
                          /\ race.calls[p].code = 200}
    ELSE {}

\* C29: a delivery OTP authorizes at most one delivery, also under
\* concurrency: for one Shipped order, among the verifyDeliveryOtp calls with
\* the correct code whose steps interleave, at most one returns success and
\* at most one delivery notification is sent.
C29_AtMostOneDelivery ==
    /\ Cardinality(C29_Successes) <= 1
    /\ race.delivered <= 1

-----------------------------------------------------------------------------
(* PasswordController.js *)

OTP_TTL_MS == 15 * 60 * 1000
MAX_OTP_ATTEMPTS == 5
RESET_JWT_EXPIRES == 15 * 60 * 1000

\* How often the clock jumps past every expiry set so far
MaxExpiries == 1

RegisteredEmail == "a@x.com"
\* email of the body: absent, the registered one (also in capitals), unknown
EmailInputs == {"", "a@x.com", "A@X.COM", "b@x.com"}
\* email.toLowerCase().trim()
LowerEmail(email) == IF email = "A@X.COM" THEN "a@x.com" ELSE email

\* crypto.randomInt(100000, 999999).toString(): the least and the greatest
OtpCodes == {"100000", "999998"}

\* newPassword of the body, with its length
PasswordInputs == {"", "short", "OldPass123", "NewPass456"}
Length(password) ==
    IF password = "" THEN 0 ELSE IF password = "short" THEN 5 ELSE 10

\* jwt.sign({ email, purpose }, secret, { expiresIn }); and two strings that
\* were not issued by validateOtp: one that does not verify, and a token of
\* the same secret with another payload
ResetToken(email, t) ==
    [email |-> email, purpose |-> "password-reset",
     exp |-> t + RESET_JWT_EXPIRES]
GarbageToken == [email |-> "", purpose |-> "<garbage>", exp |-> 0]
LoginToken ==
    [email |-> "", purpose |-> "",
     exp |-> 2 * (OTP_TTL_MS + 1) * (MaxExpiries + 1)]
NoToken == [email |-> "", purpose |-> "<absent>", exp |-> 0]

notPwVars ==
    <<orderVars, walkVars, cartVars, wishVars, reviewVars, chatVars,
      retry, norm, addr, race>>

PwReply(op, code, msg) == [op |-> op, code |-> code, msg |-> msg]

\* An early return: nothing is stored
PwReject(op, code, msg) == pw' = [pw EXCEPT !.res = PwReply(op, code, msg)]

GenericOtpSent == "If an account with that email exists, an OTP has been sent."

forgotPassword(email, otp, mailOk) ==
    IF email = ""
    THEN PwReject("forgotPassword", 400, "Email is required")
    ELSE IF LowerEmail(email) # RegisteredEmail
    THEN PwReject("forgotPassword", 200, GenericOtpSent)
    ELSE pw' = [pw EXCEPT
                  !.resetPassword =
                      [set |-> TRUE, otpHash |-> Hash(otp),
                       otpExpires |-> pw.now + OTP_TTL_MS, otpAttempts |-> 0,
                       verified |-> FALSE, resetTokenUsed |-> FALSE],
                  !.mailed = IF mailOk THEN otp ELSE @,
                  !.wrong = 0,
                  !.validated = FALSE,
                  !.res = IF mailOk
                          THEN PwReply("forgotPassword", 200, GenericOtpSent)
                          ELSE PwReply("forgotPassword", 500,
                                       "Error processing request")]

\* Mutant: one attempt more is let through
TooManyAttempts_Above(otpAttempts) == otpAttempts > MAX_OTP_ATTEMPTS

\* (user.resetPassword.otpAttempts || 0) >= MAX_OTP_ATTEMPTS
TooManyAttempts(otpAttempts) == otpAttempts >= MAX_OTP_ATTEMPTS

validateOtp(email, otp) ==
    LET rp == pw.resetPassword
        R(code, msg) == PwReply("validateOtp", code, msg)
    IN  IF email = "" \/ otp = ""
        THEN PwReject("validateOtp", 400, "Email and OTP are required")
        ELSE IF LowerEmail(email) # RegisteredEmail \/ ~rp.set
                \/ rp.otpHash = Hash("")
        THEN PwReject("validateOtp", 400, "Invalid OTP or expired")
        ELSE IF pw.now > rp.otpExpires
        THEN pw' = [pw EXCEPT !.resetPassword = NoReset,
                              !.res = R(400, "OTP expired")]
        ELSE IF TooManyAttempts(rp.otpAttempts)
        THEN PwReject("validateOtp", 429,
                      "Too many OTP attempts. Please request a new OTP.")
        ELSE IF rp.otpHash # Hash(otp)
        THEN pw' = [pw EXCEPT !.resetPassword.otpAttempts = @ + 1,
                              !.wrong = @ + 1,
                              !.res = R(400, "Invalid OTP")]
        ELSE pw' = [pw EXCEPT !.resetPassword.verified = TRUE,
                              !.resetPassword.otpAttempts = 0,
                              !.wrong = 0,
                              !.validated = TRUE,
                              !.tokens = @ \cup {ResetToken(RegisteredEmail,
                                                            pw.now)},
                              !.res = R(200, "OTP verified")]

\* Mutant: the verified flag of the flow is not looked at
FlowOpen_Unverified(rp) == rp.set

\* !(!user.resetPassword || !user.resetPassword.verified)
FlowOpen(rp) == rp.set /\ rp.verified

resetPassword(resetToken, newPassword) ==
    LET rp == pw.resetPassword
        R(code, msg) == PwReply("resetPassword", code, msg)
    IN  IF resetToken = NoToken \/ newPassword = ""
        THEN PwReject("resetPassword", 400,
                      "resetToken and newPassword are required")
        ELSE IF resetToken = GarbageToken
        THEN PwReject("resetPassword", 400, "Invalid reset token")
        ELSE IF pw.now >= resetToken.exp
        THEN PwReject("resetPassword", 400, "Reset token expired")
        ELSE IF resetToken.purpose # "password-reset" \/ resetToken.email = ""
        THEN PwReject("resetPassword", 400, "Invalid reset token")
        ELSE IF resetToken.email # RegisteredEmail \/ ~FlowOpen(rp)
        THEN PwReject("resetPassword", 400, "Invalid or expired reset flow")
        ELSE IF rp.resetTokenUsed
        THEN PwReject("resetPassword", 400, "Reset token already used")
        ELSE IF Length(newPassword) < 8
        THEN PwReject("resetPassword", 400,
                      "Password must be at least 8 characters")
        ELSE IF pw.password = Hash(newPassword)
        THEN PwReject("resetPassword", 400,
                      "New password cannot be the same as the old password")
        ELSE pw' = [pw EXCEPT
                      !.password = Hash(newPassword),
                      !.resetPassword =
                          [set |-> TRUE, otpHash |-> Hash(""),
                           otpExpires |-> -1, otpAttempts |-> 0,
                           verified |-> FALSE, resetTokenUsed |-> TRUE],
                      !.spent = @ \cup {resetToken},
                      !.validated = FALSE,
                      !.res = R(200, "Password reset successfully")]

\* Time passes: every OTP and token issued so far is past its expiry
PwTick ==
    /\ pw.now < MaxExpiries * (OTP_TTL_MS + 1)
    /\ pw' = [pw EXCEPT !.now = @ + OTP_TTL_MS + 1]

TokenInputs == pw.tokens \cup {NoToken, GarbageToken, LoginToken}

NextPw ==
    \/ \E email \in EmailInputs, otp \in OtpCodes, mailOk \in BOOLEAN :
          forgotPassword(email, otp, mailOk) /\ UNCHANGED notPwVars
    \/ \E email \in EmailInputs, otp \in OtpCodes \cup {""} :
          validateOtp(email, otp) /\ UNCHANGED notPwVars
    \/ \E resetToken \in TokenInputs, newPassword \in PasswordInputs :
          resetPassword(resetToken, newPassword) /\ UNCHANGED notPwVars
    \/ PwTick /\ UNCHANGED notPwVars

SpecPw == Init /\ [][NextPw]_vars

-----------------------------------------------------------------------------
(* Properties of the password reset *)

\* C27: reuse of a password-reset flow is rejected: once resetPassword has
\* succeeded with a reset token, every later resetPassword call presenting
\* that same token is rejected and leaves the password unchanged, after any
\* intervening sequence of forgotPassword and validateOtp calls.
C27_SpentTokenRejected ==
    [][\A resetToken \in pw.spent, newPassword \in PasswordInputs :
          resetPassword(resetToken, newPassword) =>
             /\ pw'.res.code = 400
             /\ pw'.password = pw.password]_vars

C27_Witness ==
    /\ pw.res = PwReply("resetPassword", 400, "Invalid or expired reset flow")
    /\ pw.spent # {}
    /\ pw.password = Hash("NewPass456")

\* What C28 says of the stored attempt counter: it never exceeds 5 and is 0
\* after a new issuance and after a successful validation
C28_Counter ==
    /\ pw'.resetPassword.otpAttempts <= MAX_OTP_ATTEMPTS
    /\ \A email \in EmailInputs, otp \in OtpCodes :
          /\ LowerEmail(email) = RegisteredEmail
          /\ \/ \E mailOk \in BOOLEAN : forgotPassword(email, otp, mailOk)
             \/ validateOtp(email, otp) /\ pw'.res.code = 200
          => pw'.resetPassword.otpAttempts = 0

\* A validateOtp call for the registered user after 5 wrong codes
C28_FurtherCall(email, otp) ==
    /\ pw.wrong >= MAX_OTP_ATTEMPTS
    /\ LowerEmail(email) = RegisteredEmail
    /\ validateOtp(email, otp)

\* C28 as stated: password-reset OTP attempts are bounded: for one issued
\* OTP, once 5 validateOtp calls with a wrong code have been made, every
\* further validateOtp call, the correct code included, is rejected as too
\* many attempts until forgotPassword issues a new OTP; otpAttempts never
\* exceeds 5 and is reset to 0 by a new issuance and a successful validation.
C28_RejectedAsTooMany ==
    [][/\ C28_Counter
       /\ \A email \in EmailInputs, otp \in OtpCodes :
             C28_FurtherCall(email, otp) => pw'.res.code = 429]_vars

\* C28 amended: after 5 wrong codes every further validateOtp call, the
\* correct code included, is rejected and verifies nothing until a new
\* issuance: as too many attempts (429) while the OTP is stored and has not
\* expired, and with 400 (expired or invalid) once it has expired or a reset
\* has removed it; otpAttempts never exceeds 5 and is reset to 0 by a new
\* issuance and by a successful validation.
C28_AttemptsBounded ==
    [][/\ C28_Counter
       /\ \A email \in EmailInputs, otp \in OtpCodes :
             C28_FurtherCall(email, otp) =>
                /\ pw'.res.code =
                      IF /\ pw.resetPassword.otpHash # Hash("")
                         /\ pw.now <= pw.resetPassword.otpExpires
                      THEN 429 ELSE 400
                /\ pw'.res.msg # "Invalid OTP"
                /\ pw'.tokens = pw.tokens
                /\ pw'.resetPassword.verified => pw.resetPassword.verified
                /\ pw'.wrong = pw.wrong]_vars

C28_Witness ==
    /\ pw.res.op = "validateOtp"
    /\ pw.res.code = 429
    /\ pw.wrong = MAX_OTP_ATTEMPTS
    /\ pw.resetPassword.otpAttempts = MAX_OTP_ATTEMPTS

\* C30: a user's password is changed by resetPassword only if a validateOtp
\* call for that user succeeded after the most recent forgotPassword call
\* and no resetPassword has succeeded since; every rejected resetPassword
\* call leaves the password and the reset state unchanged.
C30_ChangeNeedsValidation ==
    [][/\ pw'.password # pw.password =>
             /\ pw.validated
             /\ pw'.res = PwReply("resetPassword", 200,
                                  "Password reset successfully")
       /\ \A resetToken \in TokenInputs, newPassword \in PasswordInputs :
             resetPassword(resetToken, newPassword) /\ pw'.res.code # 200 =>
                /\ pw'.password = pw.password
                /\ pw'.resetPassword = pw.resetPassword]_vars

C30_Witness ==
    /\ pw.res = PwReply("resetPassword", 200, "Password reset successfully")
    /\ pw.password = Hash("NewPass456")
    /\ ~pw.validated

====
